---- MODULE Spec2Model ----
(***************************************************************************)
(* A model of the metrics and caching engine of portfolio_utils.py: the    *)
(* TTL price cache, the price fetcher with its fallback chain, the basic   *)
(* metrics table and the beta/alpha statistic.                             *)
(*                                                                         *)
(* Strings are modelled as tuples of one-character strings so that         *)
(* upper(), strip(), sorted() and join() are computed, not assumed.        *)
(* Floats are modelled as records: Num(v) carries an exact number, NaN is  *)
(* the float nan.                                                          *)
(***************************************************************************)
EXTENDS Integers, Sequences, FiniteSets, TLC

VARIABLES
    \* ---- process-wide state of portfolio_utils.py
    YF_AVAILABLE,       \* set once at import time
    PRICE_CACHE,        \* cache key -> price map
    CACHE_TIMESTAMPS,   \* cache key -> time.time() of the fetch
    HIST_PRICES_CACHE,  \* <<ticker, period>> -> series
    BENCHMARK_CACHE,    \* benchmark key -> frame
    now,                \* time.time(), in seconds
    \* ---- observation of the cache operations
    ticks,              \* clock advances so far
    calls,              \* get_cached_prices calls so far
    last,               \* what the last operation did
    prev,               \* cache key -> the last call for it since the last clear
    requested,          \* keys asked for since the last clear
    cleared,            \* the last clear_all_caches: when, and what it dropped
    \* ---- one run of fetch_current_prices_robust
    f_pc, f_req, f_tickers, f_idx, f_prices, f_ret, f_produced,
    f_batch,            \* the batch download of this run
    \* ---- one call of compute_metrics / compute_enhanced_metrics
    m_pc, m_df, m_prices, m_out, m_enh,
    \* ---- one call of compute_beta_alpha
    b_pc, b_asset, b_bench, b_aligned, b_out,
    \* ---- one call of validate_tickers_enhanced
    v_pc, v_req, v_idx, v_out, v_net,
    \* ---- one call of generate_portfolio_recommendations
    r_pc, r_df, r_out,
    \* ---- one call of _fetch_single_price_with_fallbacks
    c_pc, c_outs, c_calls, c_price,
    \* ---- calls of fetch_historical_series: the last one, and per key the
    \* ---- value last returned and whether the caches were cleared since
    h_last, h_seen,
    \* ---- one evaluation of the portfolio risk figures on a metrics table
    k_in, k_sharpe, k_var, k_asset,
    \* ---- auth.py: the two files of the user store, and the wall clock
    USERS_FILE,             \* users.json
    LOGIN_ATTEMPTS_FILE,    \* login_attempts.json
    clock,                  \* datetime.now(), in minutes
    \* ---- observation of the auth operations
    a_calls,                \* register_user and authenticate_user calls so far
    a_ticks,                \* clock advances so far
    a_last,                 \* what the last call did
    registered,             \* username -> password of its accepted registration
    streak,                 \* username -> failed logins in a row
    \* ---- sessions running authenticate_user at the same time
    s_pc,                   \* session -> where it is in its call
    s_read,                 \* session -> the attempts file as it loaded it
    s_tried,                \* wrong passwords verified so far
    s_calls,                \* calls begun so far
    s_overlap,              \* whether two calls ever ran at the same time
    \* ---- the portfolio directory
    p_dir,                  \* filename -> who wrote the file, when, and what
    p_now,                  \* datetime.now() of the next save
    p_last,                 \* what the last portfolio operation returned
    \* ---- sessions running get_cached_prices while another clears the caches
    g_pc,                   \* session -> where it is in get_cached_prices
    g_loc,                  \* session -> the locals of its call
    g_out,                  \* session -> how its last call ended
    g_clear,                \* where clear_all_caches is
    g_calls,                \* get_cached_prices calls begun so far
    g_clears,               \* clear_all_caches calls begun so far
    \* ---- app.py: one browser session
    session_state,          \* st.session_state
    u_error,                \* whether the error page is on the screen
    u_verified,             \* authenticate_user returned True since the last logout
    u_reset,                \* "Reset Session" was pressed since the last logout
    u_clicks                \* interactions so far

cacheVars == <<PRICE_CACHE, CACHE_TIMESTAMPS, HIST_PRICES_CACHE, BENCHMARK_CACHE,
               now, ticks, calls, last, prev, requested, cleared>>
fetchVars == <<f_pc, f_req, f_tickers, f_idx, f_prices, f_ret, f_produced, f_batch>>
metricVars == <<m_pc, m_df, m_prices, m_out, m_enh>>
betaVars == <<b_pc, b_asset, b_bench, b_aligned, b_out>>
validateVars == <<v_pc, v_req, v_idx, v_out, v_net>>
recVars == <<r_pc, r_df, r_out>>
authVars == <<USERS_FILE, LOGIN_ATTEMPTS_FILE, clock, a_calls, a_ticks, a_last, registered,
              streak>>
chainVars == <<c_pc, c_outs, c_calls, c_price>>
histVars == <<h_last, h_seen>>
riskVars == <<k_in, k_sharpe, k_var, k_asset>>
raceVars == <<s_pc, s_read, s_tried, s_calls, s_overlap>>
fileVars == <<p_dir, p_now, p_last>>
sharedVars == <<g_pc, g_loc, g_out, g_clear, g_calls, g_clears>>
uiVars == <<session_state, u_error, u_verified, u_reset, u_clicks>>
lateVars == <<raceVars, fileVars, sharedVars, uiVars>>
moreVars == <<riskVars, lateVars>>
restVars == <<validateVars, recVars, authVars, chainVars, histVars, moreVars>>
vars == <<YF_AVAILABLE, cacheVars, fetchVars, metricVars, betaVars, restVars>>

\* What a cache operation leaves alone
CacheFrame == UNCHANGED <<YF_AVAILABLE, fetchVars, metricVars, betaVars, restVars>>

-----------------------------------------------------------------------------
(* Bounds of the model *)

MaxCalls == 3       \* get_cached_prices calls in one run
MaxTicks == 2       \* clock advances in one run

-----------------------------------------------------------------------------
(* Floats *)

NaN == [k |-> "nan", v |-> 0]
Num(x) == [k |-> "num", v |-> x]
IsNaN(p) == p.k = "nan"

\* The empty dict
EmptyMap == [x \in {} |-> NaN]

Range(s) == {s[i] : i \in 1..Len(s)}

-----------------------------------------------------------------------------
(* Strings: str.upper(), str.strip(), sorted(), ",".join() *)

\* ord() of the characters in use
Ord(c) == CASE c = " " -> 32 [] c = "," -> 44 [] c = "A" -> 65 [] c = "B" -> 66
            [] c = "a" -> 97 [] c = "b" -> 98

UpperChar(c) == CASE c = "a" -> "A" [] c = "b" -> "B" [] OTHER -> c

Upper(s) == [i \in 1..Len(s) |-> UpperChar(s[i])]

RECURSIVE LStrip(_)
LStrip(s) == IF s # <<>> /\ Head(s) = " " THEN LStrip(Tail(s)) ELSE s

RECURSIVE RStrip(_)
RStrip(s) == IF s # <<>> /\ s[Len(s)] = " " THEN RStrip(SubSeq(s, 1, Len(s) - 1)) ELSE s

Strip(s) == RStrip(LStrip(s))

\* Python's order on str: by code point, a proper prefix first
RECURSIVE StrLess(_, _)
StrLess(s, t) ==
    IF t = <<>> THEN FALSE
    ELSE IF s = <<>> THEN TRUE
    ELSE IF Ord(Head(s)) # Ord(Head(t)) THEN Ord(Head(s)) < Ord(Head(t))
    ELSE StrLess(Tail(s), Tail(t))

RECURSIVE Insert(_, _)
Insert(x, l) ==
    IF l = <<>> THEN <<x>>
    ELSE IF StrLess(x, Head(l)) THEN <<x>> \o l
    ELSE <<Head(l)>> \o Insert(x, Tail(l))

RECURSIVE Sorted(_)
Sorted(l) == IF l = <<>> THEN <<>> ELSE Insert(Head(l), Sorted(Tail(l)))

RECURSIVE Join(_)
Join(l) ==
    IF l = <<>> THEN <<>>
    ELSE IF Len(l) = 1 THEN Head(l)
    ELSE Head(l) \o <<",">> \o Join(Tail(l))

\* [str(t).upper().strip() for t in tickers if str(t).strip()]
RECURSIVE TickersList(_)
TickersList(tickers) ==
    IF tickers = <<>> THEN <<>>
    ELSE IF Strip(Head(tickers)) # <<>>
         THEN <<Strip(Upper(Head(tickers)))>> \o TickersList(Tail(tickers))
         ELSE TickersList(Tail(tickers))

\* What callers pass as one ticker
RawTickers == { <<"a">>, <<" ", "A">>, <<"b">>, <<" ">> }

-----------------------------------------------------------------------------
(* The price fetcher: fetch_current_prices_robust and its helpers *)

Exc == [k |-> "exc", v |-> 0]

\* not pd.isna(price) and price > 0
ValidPrice(p) == p.k = "num" /\ p.v > 0

\* What one strategy call can do: return a number (positive or not), return
\* nan, or raise.
StrategyValues == {-1, 0, 1, 2}
Outcome == {Num(x) : x \in StrategyValues} \cup {NaN, Exc}

\* methods = [fast_info, history_1d, info, download_1d]
Methods == 1..4

\* The for loop over methods, from method i on: outs[i] is what method i
\* does for this ticker.
RECURSIVE TryMethodsFrom(_, _)
TryMethodsFrom(outs, i) ==
    IF i > 4 THEN NaN
    ELSE IF outs[i].k = "exc" THEN TryMethodsFrom(outs, i + 1)
    ELSE IF ValidPrice(outs[i]) THEN outs[i]
    ELSE TryMethodsFrom(outs, i + 1)

\* A chain that asks the methods from the last to the first
RECURSIVE TryMethodsBackFrom(_, _)
TryMethodsBackFrom(outs, i) ==
    IF i < 1 THEN NaN
    ELSE IF outs[i].k # "exc" /\ ValidPrice(outs[i]) THEN outs[i]
    ELSE TryMethodsBackFrom(outs, i - 1)

fetch_single_price_last_first(outs) == TryMethodsBackFrom(outs, 4)

fetch_single_price_with_fallbacks(outs) == TryMethodsFrom(outs, 1)

\* The names of the methods, in the order of the list
MethodNames == <<"fast_info", "history_1d", "info", "download_1d">>

\* The calls the for loop makes from method i on, each with what it did
RECURSIVE MethodCalls(_, _)
MethodCalls(outs, i) ==
    IF i > Len(MethodNames) THEN <<>>
    ELSE <<[method |-> MethodNames[i], out |-> outs[i]]>>
         \o (IF outs[i].k # "exc" /\ ValidPrice(outs[i]) THEN <<>>
             ELSE MethodCalls(outs, i + 1))

\* The body of "for ticker in tickers_list" (strategy 1)
SingleLoopBody(prices, ticker, outs) ==
    LET price == fetch_single_price_with_fallbacks(outs)
    IN  IF ValidPrice(price) THEN [prices EXCEPT ![ticker] = price] ELSE prices

\* What yf.download does for the batch: it raises, returns an empty frame,
\* or returns a frame (multi-index or flat columns) whose last non-missing
\* close per ticker is val[t] (NaN: no column or no data for t).
BatchShapes == {"exc", "empty", "multi", "flat"}

\* The last non-missing close of ticker t in the frame of batch download b
BatchValue(b, t) ==
    IF t \in DOMAIN b.val THEN b.val[t] ELSE IF "rest" \in DOMAIN b THEN b.rest ELSE NaN

fetch_batch_prices(tickers, b) ==
    LET none == [t \in tickers |-> NaN]
    IN  IF Cardinality(tickers) > 10 THEN none
        ELSE IF b.shape \in {"exc", "empty"} THEN none
        ELSE IF b.shape = "multi" THEN [t \in tickers |-> BatchValue(b, t)]
        ELSE IF Cardinality(tickers) = 1 THEN [t \in tickers |-> BatchValue(b, t)]
        ELSE none

\* A top-up that is tried for fewer than ten unresolved tickers only
BatchDueBelowTen(failed_tickers) == failed_tickers # {} /\ Cardinality(failed_tickers) < 10

\* failed_tickers and len(failed_tickers) <= 10
BatchDue(failed_tickers) == failed_tickers # {} /\ Cardinality(failed_tickers) <= 10

\* Strategy 2: the batch download for the tickers still nan
BatchTopUp(prices, b) ==
    LET failed_tickers == {t \in DOMAIN prices : IsNaN(prices[t])}
    IN  IF BatchDue(failed_tickers)
        THEN LET batch_prices == fetch_batch_prices(failed_tickers, b)
             IN  [t \in DOMAIN prices |->
                    IF t \in failed_tickers /\ ValidPrice(batch_prices[t])
                    THEN batch_prices[t] ELSE prices[t]]
        ELSE prices

RECURSIVE SingleLoop(_, _, _, _)
SingleLoop(prices, tickers_list, mkt, i) ==
    IF i > Len(tickers_list) THEN prices
    ELSE SingleLoop(SingleLoopBody(prices, tickers_list[i], mkt[tickers_list[i]]),
                    tickers_list, mkt, i + 1)

\* The key of a ticker in the map returned while yfinance is unavailable
UnavailableKey(t) == Upper(t)

\* fetch_current_prices_robust(tickers) in a market mkt (ticker -> what each
\* method does) with batch download b
fetch_current_prices_robust(tickers, mkt, b) ==
    IF ~YF_AVAILABLE
    THEN [t \in {UnavailableKey(tickers[i]) : i \in 1..Len(tickers)} |-> NaN]
    ELSE LET tickers_list == TickersList(tickers)
             prices == [t \in Range(tickers_list) |-> NaN]
         IN  IF tickers_list = <<>> THEN prices
             ELSE BatchTopUp(SingleLoop(prices, tickers_list, mkt, 1), b)

-----------------------------------------------------------------------------
(* The historical series cache and the benchmark cache *)

\* pd.Series(dtype=float)
EmptySeries == [src |-> "none", col |-> "none", interval |-> "none"]

\* What a history query returns is a frame [kind, adj, close]: the query
\* raised ("exc"), or the frame is "empty", or it is a "frame" whose Adj Close
\* and Close columns are each absent ("none"), all missing ("nan") or hold
\* "data".

\* The series taken from a non-empty frame: Adj Close if the column is
\* there, else Close, else nothing; dropna() leaves it empty if all missing.
SeriesOf(frame, src, interval) ==
    IF frame.adj # "none"
    THEN IF frame.adj = "data"
         THEN [src |-> src, col |-> "Adj Close", interval |-> interval] ELSE EmptySeries
    ELSE IF frame.close # "none"
    THEN IF frame.close = "data"
         THEN [src |-> src, col |-> "Close", interval |-> interval] ELSE EmptySeries
    ELSE EmptySeries

\* A key that keeps the ticker as it was given
HistCacheKeyAsGiven(ticker, period) == <<ticker, period>>

\* cache_key = (ticker.upper(), period)
HistCacheKey(ticker, period) == <<Upper(ticker), period>>

\* fetch_historical_series(ticker, period, interval): the series returned and
\* the cache it leaves, from cache hist; h1 is what Ticker.history does, h2
\* what yf.download does, tickerRaises whether yf.Ticker(ticker) raises.
fetch_historical_series(hist, ticker, period, interval, tickerRaises, h1, h2) ==
    LET cache_key == HistCacheKey(ticker, period)
        s1 == IF h1.kind = "frame" THEN SeriesOf(h1, "history", interval) ELSE EmptySeries
        s2 == IF h2.kind = "frame" THEN SeriesOf(h2, "download", interval) ELSE EmptySeries
        series == IF tickerRaises THEN EmptySeries
                  ELSE IF s1 # EmptySeries THEN s1
                  ELSE s2
    IN  IF ~YF_AVAILABLE THEN [ret |-> EmptySeries, hist |-> hist]
        ELSE IF cache_key \in DOMAIN hist THEN [ret |-> hist[cache_key], hist |-> hist]
        ELSE [ret |-> series, hist |-> (cache_key :> series) @@ hist]

\* The network queries one call of fetch_historical_series makes, in order
HistoryQueries(hist, ticker, period, interval, tickerRaises, h1, h2) ==
    LET s1 == IF h1.kind = "frame" THEN SeriesOf(h1, "history", interval) ELSE EmptySeries
    IN  IF ~YF_AVAILABLE \/ HistCacheKey(ticker, period) \in DOMAIN hist THEN <<>>
        ELSE IF tickerRaises THEN <<>>
        ELSE IF s1 # EmptySeries THEN <<"history">>
        ELSE <<"history", "download">>

DEFAULT_BENCHMARKS == << <<"^GSPC">>, <<"^IXIC">> >>

\* pd.DataFrame()
EmptyFrame == [t \in {} |-> EmptySeries]

\* The loop of fetch_benchmark_data over tickers, from ticker i on: env[t]
\* is what the market does for ticker t.
RECURSIVE BenchmarkLoop(_, _, _, _, _, _, _)
BenchmarkLoop(hist, data, tickers, period, interval, env, i) ==
    IF i > Len(tickers) THEN [hist |-> hist, data |-> data]
    ELSE LET t == tickers[i]
             r == fetch_historical_series(hist, t, period, interval,
                                          env[t].raises, env[t].h1, env[t].h2)
         IN  BenchmarkLoop(r.hist,
                           IF r.ret # EmptySeries THEN (t :> r.ret) @@ data ELSE data,
                           tickers, period, interval, env, i + 1)

\* fetch_benchmark_data(period, interval, tickers): the frame returned and
\* the two caches it leaves
fetch_benchmark_data(hist, bench, period, interval, tickers, env) ==
    LET cache_key == Join(tickers) \o <<"_">> \o <<period>>
        r == BenchmarkLoop(hist, EmptyFrame, tickers, period, interval, env, 1)
    IN  IF ~YF_AVAILABLE THEN [ret |-> EmptyFrame, hist |-> hist, bench |-> bench]
        ELSE IF cache_key \in DOMAIN bench
        THEN [ret |-> bench[cache_key], hist |-> hist, bench |-> bench]
        ELSE [ret |-> r.data, hist |-> r.hist, bench |-> (cache_key :> r.data) @@ bench]

-----------------------------------------------------------------------------
(* The price cache: get_cached_prices and clear_all_caches *)

CACHE_DURATION_MINUTES == 5

\* cache_key = ",".join(sorted(tickers_list))
CacheKey(tickers_list) == Join(Sorted(tickers_list))

\* dict.get(k, default)
Get(m, k, default) == IF k \in DOMAIN m THEN m[k] ELSE default

\* A cache that still serves an entry whose age equals the duration
CacheValidAtLimit(cache_age, cache_duration_minutes) ==
    cache_age <= cache_duration_minutes * 60

\* cache_age < cache_duration_minutes * 60
CacheValid(cache_age, cache_duration_minutes) == cache_age < cache_duration_minutes * 60

\* PRICE_CACHE[cache_key] = prices
StorePrices(cache, cache_key, prices) == (cache_key :> prices) @@ cache

\* A cache that forgets to record the time of the fetch
StoreNoTimestamp(stamps, cache_key, t) == stamps

\* CACHE_TIMESTAMPS[cache_key] = now
StoreTimestamp(stamps, cache_key, t) == (cache_key :> t) @@ stamps

\* A clear that forgets the price map and clears only its timestamps
ClearedButPrices ==
    [prices |-> PRICE_CACHE, stamps |-> EmptyMap, hist |-> EmptyMap, bench |-> EmptyMap]

\* The four caches after clear_all_caches: each dict.clear()
ClearedCaches ==
    [prices |-> EmptyMap, stamps |-> EmptyMap, hist |-> EmptyMap, bench |-> EmptyMap]

\* The record of an operation that is not a get_cached_prices call
NoCall(op) ==
    [op |-> op, tickers |-> <<>>, key |-> <<>>, ttl |-> 0, at |-> now,
     lookup |-> FALSE, had |-> FALSE, age |-> 0, old |-> EmptyMap,
     fetched |-> FALSE, fetchArg |-> <<>>, fetchRet |-> EmptyMap, result |-> EmptyMap,
     hadPrev |-> FALSE, prevResult |-> EmptyMap, prevAt |-> 0, prevFetchedAt |-> 0,
     fresh |-> FALSE, sameSetValid |-> FALSE]

\* get_cached_prices(tickers, cache_duration_minutes) in market mkt, b
get_cached_prices(tickers, cache_duration_minutes, mkt, b) ==
    LET tickers_list == TickersList(tickers)
        cache_key == CacheKey(tickers_list)
        had == cache_key \in DOMAIN PRICE_CACHE
        cache_age == now - Get(CACHE_TIMESTAMPS, cache_key, 0)
        hit == had /\ CacheValid(cache_age, cache_duration_minutes)
        early == tickers_list = <<>> \/ ~YF_AVAILABLE
        prices == fetch_current_prices_robust(tickers_list, mkt, b)
        result == IF early THEN [t \in Range(tickers_list) |-> NaN]
                  ELSE IF hit THEN PRICE_CACHE[cache_key]
                  ELSE prices
        fetched == ~early /\ ~hit
        obs == [op |-> "get", tickers |-> tickers_list, key |-> cache_key,
                ttl |-> cache_duration_minutes * 60, at |-> now,
                lookup |-> ~early, had |-> had,
                age |-> IF had THEN cache_age ELSE 0,
                old |-> Get(PRICE_CACHE, cache_key, EmptyMap),
                fetched |-> fetched,
                fetchArg |-> IF fetched THEN tickers_list ELSE <<>>,
                fetchRet |-> IF fetched THEN prices ELSE EmptyMap,
                result |-> result,
                hadPrev |-> cache_key \in DOMAIN prev,
                prevResult |-> IF cache_key \in DOMAIN prev
                               THEN prev[cache_key].result ELSE EmptyMap,
                prevAt |-> IF cache_key \in DOMAIN prev THEN prev[cache_key].at ELSE 0,
                prevFetchedAt |-> IF cache_key \in DOMAIN prev
                                  THEN prev[cache_key].fetchedAt ELSE 0,
                fresh |-> cache_key \notin requested,
                sameSetValid |->
                    \E k \in DOMAIN PRICE_CACHE :
                        /\ DOMAIN PRICE_CACHE[k] = Range(tickers_list)
                        /\ now - Get(CACHE_TIMESTAMPS, k, 0) < cache_duration_minutes * 60]
    IN  /\ calls < MaxCalls
        /\ calls' = calls + 1
        /\ PRICE_CACHE' = IF fetched THEN StorePrices(PRICE_CACHE, cache_key, prices)
                          ELSE PRICE_CACHE
        /\ CACHE_TIMESTAMPS' = IF fetched THEN StoreTimestamp(CACHE_TIMESTAMPS, cache_key, now)
                               ELSE CACHE_TIMESTAMPS
        /\ last' = obs
        /\ requested' = requested \cup {cache_key}
        /\ prev' = IF early THEN prev
                   ELSE (cache_key :> [result |-> result, at |-> now,
                                       fetchedAt |-> IF fetched THEN now
                                                     ELSE obs.prevFetchedAt]) @@ prev
        /\ UNCHANGED <<HIST_PRICES_CACHE, BENCHMARK_CACHE, now, ticks, cleared>>
        /\ CacheFrame

\* The markets the cache is exercised in: what each method does per ticker,
\* and what the batch download does
AllFail == [i \in Methods |-> Exc]
FastInfo(x) == [i \in Methods |-> IF i = 1 THEN Num(x) ELSE Exc]
ThirdTry(x) == [i \in Methods |-> CASE i = 1 -> NaN [] i = 2 -> Num(0) [] OTHER -> Num(x)]
NormTickers == {Strip(Upper(t)) : t \in RawTickers} \ {<<>>}
Scenarios ==
    {[mkt |-> [t \in NormTickers |-> IF t = <<"A">> THEN FastInfo(1) ELSE AllFail],
      b |-> [shape |-> "exc", val |-> [t \in NormTickers |-> NaN]]],
     [mkt |-> [t \in NormTickers |-> IF t = <<"A">> THEN ThirdTry(2) ELSE AllFail],
      b |-> [shape |-> "multi", val |-> [t \in NormTickers |-> Num(1)]]]}
\* The requests the cache is exercised with: one ticker, the same ticker
\* twice in two spellings, two tickers in both orders
CacheRequests ==
    { << <<"a">> >>, << <<" ", "A">>, <<"a">> >>,
      << <<"a">>, <<"b">> >>, << <<"b">>, <<" ", "A">> >> }
Durations == {CACHE_DURATION_MINUTES}
TickSteps == {150}

GetCachedPrices ==
    \E tickers \in CacheRequests, d \in Durations, sc \in Scenarios :
        get_cached_prices(tickers, d, sc.mkt, sc.b)

\* The same call, with the requests the four caches are exercised with
ReloadRequests == { << <<" ">> >>, << <<"b">>, <<" ", "A">> >> }

ReloadPrices ==
    \E tickers \in ReloadRequests, d \in Durations, sc \in Scenarios :
        get_cached_prices(tickers, d, sc.mkt, sc.b)

\* clear_all_caches()
clear_all_caches ==
    /\ PRICE_CACHE' = ClearedCaches.prices
    /\ CACHE_TIMESTAMPS' = ClearedCaches.stamps
    /\ HIST_PRICES_CACHE' = ClearedCaches.hist
    /\ BENCHMARK_CACHE' = ClearedCaches.bench
    /\ last' = NoCall("clear")
    /\ prev' = EmptyMap
    /\ requested' = {}
    /\ cleared' = [done |-> TRUE, at |-> now, keys |-> DOMAIN PRICE_CACHE,
                   hist |-> DOMAIN HIST_PRICES_CACHE # {},
                   bench |-> DOMAIN BENCHMARK_CACHE # {}]
    /\ UNCHANGED <<now, ticks, calls>>
    /\ CacheFrame

\* The clock moves on
Tick ==
    \E d \in TickSteps :
        /\ ticks < MaxTicks
        /\ ticks' = ticks + 1
        /\ now' = now + d
        /\ UNCHANGED <<PRICE_CACHE, CACHE_TIMESTAMPS, HIST_PRICES_CACHE, BENCHMARK_CACHE,
                       calls, last, prev, requested, cleared>>
        /\ CacheFrame

\* The history queries the caches are exercised with
GoodFrame == [kind |-> "frame", adj |-> "data", close |-> "data"]
RaisingFrame == [kind |-> "exc", adj |-> "none", close |-> "none"]
HistEnvs == {[raises |-> FALSE, h1 |-> GoodFrame, h2 |-> RaisingFrame],
             [raises |-> FALSE, h1 |-> RaisingFrame, h2 |-> RaisingFrame]}

FetchHistoricalSeries ==
    \E ticker \in {<<"a">>}, e \in HistEnvs :
        LET r == fetch_historical_series(HIST_PRICES_CACHE, ticker, "6mo", "1d",
                                         e.raises, e.h1, e.h2)
        IN  /\ HIST_PRICES_CACHE' = r.hist
            /\ last' = NoCall("hist")
            /\ UNCHANGED <<PRICE_CACHE, CACHE_TIMESTAMPS, BENCHMARK_CACHE, now, ticks,
                           calls, prev, requested, cleared>>
            /\ CacheFrame

FetchBenchmarkData ==
    \E e \in HistEnvs :
        LET env == [t \in Range(DEFAULT_BENCHMARKS) |-> e]
            r == fetch_benchmark_data(HIST_PRICES_CACHE, BENCHMARK_CACHE, "6mo", "1d",
                                      DEFAULT_BENCHMARKS, env)
        IN  /\ HIST_PRICES_CACHE' = r.hist
            /\ BENCHMARK_CACHE' = r.bench
            /\ last' = NoCall("bench")
            /\ UNCHANGED <<PRICE_CACHE, CACHE_TIMESTAMPS, now, ticks, calls, prev,
                           requested, cleared>>
            /\ CacheFrame

\* The other groups of variables, at rest
FetchIdle ==
    /\ f_pc = "idle" /\ f_req = <<>> /\ f_tickers = <<>> /\ f_idx = 0
    /\ f_prices = EmptyMap /\ f_ret = EmptyMap /\ f_produced = EmptyMap
    /\ f_batch = [requests |-> <<>>, before |-> EmptyMap]
MetricsIdle ==
    /\ m_pc = "idle" /\ m_df = <<>> /\ m_prices = EmptyMap /\ m_out = <<>> /\ m_enh = <<>>
BetaIdle ==
    /\ b_pc = "idle" /\ b_asset = <<>> /\ b_bench = <<>> /\ b_aligned = <<>>
    /\ b_out = <<>>
ValidateIdle ==
    v_pc = "idle" /\ v_req = <<>> /\ v_idx = 0 /\ v_out = EmptyMap /\ v_net = <<>>
RecIdle == r_pc = "idle" /\ r_df = <<>> /\ r_out = <<>>
\* json: a dict is a function of its keys, {} is the empty function; a file
\* is absent or holds one dict
NoFile == [exists |-> FALSE, data |-> EmptyMap]
NoAuthCall ==
    [op |-> "none", user |-> "", password |-> <<>>, result |-> FALSE, at |-> 0,
     locked |-> FALSE, wasRegistered |-> FALSE, streakBefore |-> 0,
     countBefore |-> 0, lastAttemptBefore |-> <<>>, usersChanged |-> FALSE]
AuthIdle ==
    /\ USERS_FILE = NoFile /\ LOGIN_ATTEMPTS_FILE = NoFile /\ clock = 0
    /\ a_calls = 0 /\ a_ticks = 0 /\ a_last = NoAuthCall
    /\ registered = EmptyMap /\ streak = EmptyMap
ChainIdle == c_pc = "idle" /\ c_outs = <<>> /\ c_calls = <<>> /\ c_price = NaN
NoSeriesCall ==
    [op |-> "none", key |-> <<>>, interval |-> "", queries |-> <<>>, ret |-> EmptySeries,
     raises |-> FALSE, h1 |-> RaisingFrame, h2 |-> RaisingFrame,
     known |-> FALSE, knownRet |-> EmptySeries, clearedSince |-> FALSE]
HistIdle == h_last = NoSeriesCall /\ h_seen = EmptyMap
RiskIdle == k_in = <<>> /\ k_sharpe = <<>> /\ k_var = <<>> /\ k_asset = <<>>
Sessions == {1, 2}
RaceIdle ==
    /\ s_pc = [s \in Sessions |-> "idle"] /\ s_read = [s \in Sessions |-> NoFile]
    /\ s_tried = 0 /\ s_calls = 0 /\ s_overlap = FALSE
NoPortfolioCall == [op |-> "none", user |-> <<>>, files |-> <<>>, loaded |-> <<>>]
FileIdle == p_dir = EmptyMap /\ p_now = 0 /\ p_last = NoPortfolioCall
SharedIdle ==
    /\ g_pc = [s \in Sessions |-> "idle"] /\ g_loc = [s \in Sessions |-> <<>>]
    /\ g_out = [s \in Sessions |-> <<>>]
    /\ g_clear = "idle" /\ g_calls = 0 /\ g_clears = 0
\* initialize_session_state(): the defaults of the keys that are missing
SessionDefaults ==
    [authenticated |-> FALSE, username |-> <<>>, portfolio_df |-> "None",
     first_login |-> TRUE, show_welcome |-> TRUE]
initialize_session_state(state) ==
    [k \in DOMAIN SessionDefaults |-> IF k \in DOMAIN state THEN state[k]
                                      ELSE SessionDefaults[k]]
UiIdle ==
    /\ session_state = initialize_session_state(EmptyMap)
    /\ u_error = FALSE /\ u_verified = FALSE /\ u_reset = FALSE /\ u_clicks = 0
LateIdle == RaceIdle /\ FileIdle /\ SharedIdle /\ UiIdle
MoreIdle == RiskIdle /\ LateIdle
RestIdle == ValidateIdle /\ RecIdle /\ AuthIdle /\ ChainIdle /\ HistIdle /\ MoreIdle
CacheIdle ==
    /\ PRICE_CACHE = EmptyMap /\ CACHE_TIMESTAMPS = EmptyMap
    /\ HIST_PRICES_CACHE = EmptyMap /\ BENCHMARK_CACHE = EmptyMap
    /\ now = 0 /\ ticks = 0 /\ calls = 0
    /\ last = NoCall("none") /\ prev = EmptyMap /\ requested = {}
    /\ cleared = [done |-> FALSE, at |-> 0, keys |-> {}, hist |-> FALSE, bench |-> FALSE]

InitCache ==
    /\ YF_AVAILABLE \in BOOLEAN
    /\ CacheIdle /\ FetchIdle /\ MetricsIdle /\ BetaIdle /\ RestIdle

NextCache ==
    \/ GetCachedPrices
    \/ clear_all_caches
    \/ Tick

\* The price cache alone
SpecCache == InitCache /\ [][NextCache]_vars

NextCaches ==
    \/ ReloadPrices
    \/ clear_all_caches
    \/ Tick
    \/ FetchHistoricalSeries
    \/ FetchBenchmarkData

\* The four caches together
SpecCaches == InitCache /\ [][NextCaches]_vars

-----------------------------------------------------------------------------
(* Calls of fetch_historical_series *)

HistFrame ==
    UNCHANGED <<YF_AVAILABLE, fetchVars, metricVars, betaVars, validateVars, recVars,
                authVars, chainVars, moreVars>>

\* One call fetch_historical_series(ticker, period, interval) where e is what
\* yfinance does
FetchSeries(ticker, period, interval, e) ==
    LET r == fetch_historical_series(HIST_PRICES_CACHE, ticker, period, interval,
                                     e.raises, e.h1, e.h2)
        key == <<Upper(ticker), period>>
        known == key \in DOMAIN h_seen
    IN  /\ HIST_PRICES_CACHE' = r.hist
        /\ h_last' = [op |-> "hist", key |-> key, interval |-> interval,
                      queries |-> HistoryQueries(HIST_PRICES_CACHE, ticker, period,
                                                 interval, e.raises, e.h1, e.h2),
                      ret |-> r.ret, raises |-> e.raises, h1 |-> e.h1, h2 |-> e.h2,
                      known |-> known,
                      knownRet |-> IF known THEN h_seen[key].ret ELSE EmptySeries,
                      clearedSince |-> known /\ h_seen[key].cleared]
        /\ h_seen' = (key :> [ret |-> r.ret, cleared |-> FALSE]) @@ h_seen
        /\ UNCHANGED <<PRICE_CACHE, CACHE_TIMESTAMPS, BENCHMARK_CACHE, now, ticks, calls,
                       last, prev, requested, cleared>>
        /\ HistFrame

\* clear_all_caches(), between calls of fetch_historical_series
ClearAllCaches ==
    /\ PRICE_CACHE' = ClearedCaches.prices
    /\ CACHE_TIMESTAMPS' = ClearedCaches.stamps
    /\ HIST_PRICES_CACHE' = ClearedCaches.hist
    /\ BENCHMARK_CACHE' = ClearedCaches.bench
    /\ h_last' = [NoSeriesCall EXCEPT !.op = "clear"]
    /\ h_seen' = [k \in DOMAIN h_seen |-> [h_seen[k] EXCEPT !.cleared = TRUE]]
    /\ UNCHANGED <<now, ticks, calls, last, prev, requested, cleared>>
    /\ HistFrame

\* The calls the cache is exercised with: one ticker in two spellings, two
\* periods, two intervals; the history query gives data, or fails and the
\* download gives data, or both fail, or yf.Ticker raises
HistTickers == {<<"a">>, <<"A">>}
HistPeriods == {"6mo", "1y"}
HistIntervals == {"1d", "1wk"}
SeriesEnvs ==
    HistEnvs \cup {[raises |-> FALSE, h1 |-> RaisingFrame, h2 |-> GoodFrame],
                   [raises |-> TRUE, h1 |-> GoodFrame, h2 |-> GoodFrame]}

FetchCachedSeries ==
    \E ticker \in HistTickers, period \in HistPeriods, interval \in HistIntervals,
       e \in SeriesEnvs :
        FetchSeries(ticker, period, interval, e)

NextHist ==
    \/ FetchCachedSeries
    \/ ClearAllCaches
    \/ Tick

\* The historical series cache alone
SpecHist == InitCache /\ [][NextHist]_vars

\* Every result a history query can have
Columns == {"none", "nan", "data"}
Frames ==
    {RaisingFrame, [kind |-> "empty", adj |-> "none", close |-> "none"]}
    \cup {[kind |-> "frame", adj |-> a, close |-> c] : a \in Columns, c \in Columns}

FetchAnySeries ==
    \E interval \in HistIntervals, e \in [raises : BOOLEAN, h1 : Frames, h2 : Frames] :
        FetchSeries(<<"a">>, "6mo", interval, e)

NextSeries == FetchAnySeries

\* Calls for one key over every result of the two queries
SpecSeries == InitCache /\ [][NextSeries]_vars

-----------------------------------------------------------------------------
(* One run of fetch_current_prices_robust, one step per loop iteration *)

FetchFrame == UNCHANGED <<YF_AVAILABLE, cacheVars, metricVars, betaVars, restVars>>

\* The requests the fetcher is exercised with: none, a blank, one ticker in
\* two spellings, the same ticker twice, two tickers in both orders, a blank
\* among tickers, a ticker before and after another
\* Eleven more tickers, to have ten and eleven of them unresolved
ManyTickers ==
    << <<"C">>, <<"D">>, <<"E">>, <<"F">>, <<"G">>, <<"H">>, <<"I">>, <<"J">>, <<"K">>,
       <<"L">>, <<"M">> >>

FetchRequests ==
    { <<>>, << <<" ">> >>, << <<"a">> >>, << <<" ", "A">> >>,
      << <<"a">>, <<" ", "A">> >>, << <<"a">>, <<"b">> >>, << <<"B">>, <<"a">> >>,
      << <<" ">>, <<"b">> >>, << <<"a">>, <<"b">>, <<"A">> >>,
      SubSeq(ManyTickers, 1, 10), ManyTickers }

\* What the batch download can do
BatchValues == {NaN, Num(0), Num(3)}
BatchOutcomes == [shape : BatchShapes, val : [NormTickers -> BatchValues], rest : BatchValues]

\* What the four methods can do for one ticker: anything for the tickers
\* "A" and "B"; all failing or a quote at once for "C" and "D"; all failing
\* for the others
OutsFor(ticker) ==
    IF ticker \in NormTickers THEN [Methods -> Outcome]
    ELSE IF ticker \in {<<"C">>, <<"D">>} THEN {AllFail, FastInfo(1)}
    ELSE {AllFail}

\* The valid prices the methods called for one ticker produced: a method is
\* called only while no earlier one has returned a valid price
CalledMethods(outs) == {i \in Methods : \A j \in 1..(i - 1) : ~ValidPrice(outs[j])}
ProducedBy(outs) == {outs[i] : i \in {j \in CalledMethods(outs) : ValidPrice(outs[j])}}

\* Entry: the yfinance check, the normalisation, the empty-list return
FetchBegin ==
    /\ f_pc = "idle"
    /\ \E tickers \in FetchRequests :
        LET tickers_list == TickersList(tickers)
            prices == [t \in Range(tickers_list) |-> NaN]
        IN  /\ f_req' = tickers
            /\ IF ~YF_AVAILABLE
               THEN /\ f_pc' = "returned"
                    /\ f_ret' = fetch_current_prices_robust(tickers, EmptyMap, EmptyMap)
                    /\ UNCHANGED <<f_tickers, f_idx, f_prices, f_produced, f_batch>>
               ELSE /\ f_tickers' = tickers_list
                    /\ f_prices' = prices
                    /\ f_produced' = [t \in Range(tickers_list) |-> {}]
                    /\ f_idx' = 1
                    /\ UNCHANGED f_batch
                    /\ IF tickers_list = <<>>
                       THEN f_pc' = "returned" /\ f_ret' = prices
                       ELSE f_pc' = "single" /\ UNCHANGED f_ret
    /\ FetchFrame

\* One iteration of "for ticker in tickers_list"
FetchSingle ==
    /\ f_pc = "single"
    /\ \E outs \in OutsFor(f_tickers[f_idx]) :
        LET ticker == f_tickers[f_idx]
        IN  /\ f_prices' = SingleLoopBody(f_prices, ticker, outs)
            /\ f_produced' = [f_produced EXCEPT ![ticker] = @ \cup ProducedBy(outs)]
    /\ f_idx' = f_idx + 1
    /\ f_pc' = IF f_idx = Len(f_tickers) THEN "batch" ELSE "single"
    /\ UNCHANGED <<f_req, f_tickers, f_ret, f_batch>>
    /\ FetchFrame

\* The batch top-up for the tickers still nan, and the return
FetchBatch ==
    /\ f_pc = "batch"
    /\ \E b \in BatchOutcomes :
        LET failed_tickers == {t \in DOMAIN f_prices : IsNaN(f_prices[t])}
            batch_prices == fetch_batch_prices(failed_tickers, b)
            prices == BatchTopUp(f_prices, b)
        IN  /\ f_prices' = prices
            /\ f_ret' = prices
            /\ f_produced' =
                 [t \in DOMAIN f_produced |->
                    IF t \in failed_tickers /\ Cardinality(failed_tickers) <= 10
                       /\ ValidPrice(batch_prices[t])
                    THEN f_produced[t] \cup {batch_prices[t]} ELSE f_produced[t]]
            /\ f_batch' = [requests |-> IF BatchDue(failed_tickers)
                                           /\ Cardinality(failed_tickers) <= 10
                                        THEN <<failed_tickers>> ELSE <<>>,
                           before |-> f_prices]
    /\ f_pc' = "returned"
    /\ UNCHANGED <<f_req, f_tickers, f_idx>>
    /\ FetchFrame

NextFetch ==
    \/ FetchBegin
    \/ FetchSingle
    \/ FetchBatch

\* The price fetcher alone
SpecFetch == InitCache /\ [][NextFetch]_vars

-----------------------------------------------------------------------------
(* The basic metrics table: compute_metrics and compute_enhanced_metrics *)

MaxRows == 2        \* rows of one holdings table

Abs(x) == IF x < 0 THEN -x ELSE x

RECURSIVE GCD(_, _)
GCD(a, b) == IF b = 0 THEN a ELSE GCD(b, a % b)

\* The float n / d (d # 0), carried exactly as a fraction in lowest terms
Rat(n, d) ==
    LET g == GCD(Abs(n), Abs(d))
        s == IF d < 0 THEN -1 ELSE 1
    IN  [k |-> "rat", n |-> (s * n) \div g, d |-> (s * d) \div g]

\* a * b and a - b on floats: nan if either is nan
Mul(a, b) == IF IsNaN(a) \/ IsNaN(b) THEN NaN ELSE Num(a.v * b.v)
Sub(a, b) == IF IsNaN(a) \/ IsNaN(b) THEN NaN ELSE Num(a.v - b.v)

\* A percentage that forgets to subtract the base
PctOfBase(num, den) ==
    IF IsNaN(den) \/ den.v <= 0 THEN NaN
    ELSE IF IsNaN(num) THEN NaN
    ELSE Rat(100 * num.v, den.v)

\* np.where(den > 0, (num / den - 1.0) * 100.0, np.nan)
PctOver(num, den) ==
    IF IsNaN(den) \/ den.v <= 0 THEN NaN
    ELSE IF IsNaN(num) THEN NaN
    ELSE Rat(100 * (num.v - den.v), den.v)

\* Series.sum(): missing values are skipped, the empty sum is 0
RECURSIVE SumSkipNa(_)
SumSkipNa(xs) ==
    IF xs = <<>> THEN 0
    ELSE (IF IsNaN(Head(xs)) THEN 0 ELSE Head(xs).v) + SumSkipNa(Tail(xs))

\* A weight that is a share of 1, not of 100
WeightShare(tv, total_value) ==
    IF total_value > 0
    THEN IF IsNaN(tv) THEN NaN ELSE Rat(tv.v, total_value)
    ELSE NaN

\* 'Weight %': Total Value / total_value * 100.0 if total_value > 0, else nan
Weight(tv, total_value) ==
    IF total_value > 0
    THEN IF IsNaN(tv) THEN NaN ELSE Rat(100 * tv.v, total_value)
    ELSE NaN

\* What a cell of the Purchase Price or Quantity column can hold: a number,
\* a string that spells a number, a string that does not, a missing value
NumStr(x) == [k |-> "str", v |-> x]
Junk == [k |-> "junk", v |-> 0]

\* pd.to_numeric(column, errors='coerce')
ToNumeric(c) == IF c.k \in {"num", "str"} THEN Num(c.v) ELSE NaN

\* pd.DataFrame()
EmptyDataFrame == [columns |-> {}, rows |-> <<>>]

\* df.empty
IsEmpty(df) == df.rows = <<>> \/ df.columns = {}

required_cols == {"Ticker", "Purchase Price", "Quantity"}

\* The cleaning of one row: Ticker uppercased and stripped, the two numeric
\* columns coerced
CleanRow(r) ==
    [c \in DOMAIN r |->
        CASE c = "Ticker" -> Strip(Upper(r[c]))
          [] c \in {"Purchase Price", "Quantity"} -> ToNumeric(r[c])
          [] OTHER -> r[c]]

\* A filter that keeps a holding of quantity 0
ValidRowOrZeroQuantity(r) ==
    /\ ~IsNaN(r["Purchase Price"]) /\ ~IsNaN(r["Quantity"])
    /\ r["Purchase Price"].v > 0
    /\ r["Quantity"].v >= 0

\* dropna(subset=...), then Purchase Price > 0, then Quantity > 0
ValidRow(r) ==
    /\ ~IsNaN(r["Purchase Price"]) /\ ~IsNaN(r["Quantity"])
    /\ r["Purchase Price"].v > 0
    /\ r["Quantity"].v > 0

\* prices.get(str(t).upper(), np.nan)
CurrentPrice(r, prices) == Get(prices, Upper(r["Ticker"]), NaN)

TotalValue(r, prices) == Mul(CurrentPrice(r, prices), r["Quantity"])

MetricCols ==
    {"Current Price", "Total Value", "Cost Basis", "P/L", "P/L %", "Weight %",
     "Price Change", "Price Change %"}

\* The columns computed for one cleaned row
MetricsRow(r, prices, total_value) ==
    LET cp == CurrentPrice(r, prices)
        tv == TotalValue(r, prices)
        cb == Mul(r["Purchase Price"], r["Quantity"])
    IN  [c \in DOMAIN r \cup MetricCols |->
            CASE c = "Current Price" -> cp
              [] c = "Total Value" -> tv
              [] c = "Cost Basis" -> cb
              [] c = "P/L" -> Sub(tv, cb)
              [] c = "P/L %" -> PctOver(tv, cb)
              [] c = "Weight %" -> Weight(tv, total_value)
              [] c = "Price Change" -> Sub(cp, r["Purchase Price"])
              [] c = "Price Change %" -> PctOver(cp, r["Purchase Price"])
              [] OTHER -> r[c]]

\* compute_metrics(df, prices). A table that lacks a required column raises
\* ValueError inside the try, and the except returns df.copy().
compute_metrics(df, prices) ==
    IF IsEmpty(df) THEN EmptyDataFrame
    ELSE IF ~(required_cols \subseteq df.columns) THEN df
    ELSE LET cleaned == [i \in 1..Len(df.rows) |-> CleanRow(df.rows[i])]
             kept == SelectSeq(cleaned, ValidRow)
             total_value == SumSkipNa([i \in 1..Len(kept) |-> TotalValue(kept[i], prices)])
         IN  IF kept = <<>> THEN EmptyDataFrame
             ELSE [columns |-> df.columns \cup MetricCols,
                   rows |-> [i \in 1..Len(kept) |->
                                MetricsRow(kept[i], prices, total_value)]]

advanced_cols == {"RSI", "Volatility", "Beta", "Alpha", "Sharpe"}

\* What the guarded block of the per-asset loop leaves in the advanced
\* columns of a row: nothing (no history, or an exception swallowed), or
\* values
AdvOutcomes ==
    {[c \in advanced_cols |-> NaN],
     [c \in advanced_cols |-> IF c \in {"Beta", "Alpha"} THEN NaN ELSE Num(1)]}

\* get_popular_assets_flat()
PopularAssets == (<<"A">> :> "Apple Inc.")

\* One row of the enhanced table
EnhancedRow(r, adv) ==
    [c \in DOMAIN r \cup advanced_cols \cup {"Asset Name"} |->
        IF c \in advanced_cols THEN (IF r["Ticker"] = <<>> THEN NaN ELSE adv[c])
        ELSE IF c = "Asset Name" THEN Get(PopularAssets, Upper(r["Ticker"]), "")
        ELSE r[c]]

\* compute_enhanced_metrics(df, prices): the table returned, or the
\* exception that leaves it. result_df['Ticker'] (the Asset Name column) is
\* not guarded.
compute_enhanced_metrics(df, prices, adv) ==
    LET result_df == compute_metrics(df, prices)
    IN  IF IsEmpty(result_df) THEN [kind |-> "table", table |-> result_df]
        ELSE IF "Ticker" \notin result_df.columns
        THEN [kind |-> "raised KeyError", table |-> EmptyDataFrame]
        ELSE [kind |-> "table",
              table |-> [columns |-> result_df.columns \cup advanced_cols
                                         \cup {"Asset Name"},
                         rows |-> [i \in 1..Len(result_df.rows) |->
                                      EnhancedRow(result_df.rows[i], adv)]]]

\* The holdings the tables are built from: the AAPL and SPY rows of the
\* worked example (A bought 10 at 150, B bought 5 at 400, the quantity as
\* text), and rows with a zero, negative, non-numeric or missing field
Holding(t, p, q) ==
    [c \in required_cols |->
        CASE c = "Ticker" -> t [] c = "Purchase Price" -> p [] OTHER -> q]
HoldingRows ==
    { Holding(<<"a">>, Num(150), Num(10)),
      Holding(<<" ", "B">>, Num(400), NumStr(5)),
      Holding(<<"a">>, Num(150), Num(0)),
      Holding(<<"b">>, Num(0), Num(5)),
      Holding(<<"b">>, Junk, Num(5)),
      Holding(<<"a">>, Num(150), Num(-1)),
      Holding(<<"b">>, Num(400), NaN),
      Holding(<<" ">>, Num(2), Num(1)) }

\* The columns a table has: all the required ones, or all but one
ColumnSets == {required_cols} \cup {required_cols \ {c} : c \in required_cols}

\* A table with a RangeIndex
MakeTable(cols, hs) ==
    [columns |-> cols,
     rows |-> [i \in 1..Len(hs) |->
                  [c \in cols \cup {"index"} |->
                      IF c = "index" THEN i - 1 ELSE hs[i][c]]]]

Tables ==
    {MakeTable(cols, hs) :
        cols \in ColumnSets, hs \in UNION {[1..n -> HoldingRows] : n \in 0..MaxRows}}

\* The price maps: both prices, one price, a nan, nothing, zeros, and the
\* map with an unstripped key
PriceMaps ==
    { (<<"A">> :> Num(165)) @@ (<<"B">> :> Num(380)),
      (<<"A">> :> Num(165)),
      (<<"A">> :> NaN) @@ (<<"B">> :> Num(380)),
      EmptyMap,
      (<<"A">> :> Num(0)) @@ (<<"B">> :> Num(0)),
      (<<" ", "A">> :> NaN) }

MetricsFrame == UNCHANGED <<YF_AVAILABLE, cacheVars, fetchVars, betaVars, restVars>>

ComputeMetrics ==
    /\ m_pc = "input"
    /\ m_pc' = "metrics"
    /\ m_out' = [kind |-> "table", table |-> compute_metrics(m_df, m_prices)]
    /\ UNCHANGED <<m_df, m_prices, m_enh>>
    /\ MetricsFrame

ComputeEnhancedMetrics ==
    /\ m_pc = "input"
    /\ m_pc' = "enhanced"
    /\ \E adv \in AdvOutcomes : m_enh' = compute_enhanced_metrics(m_df, m_prices, adv)
    /\ UNCHANGED <<m_df, m_prices, m_out>>
    /\ MetricsFrame

InitMetrics ==
    /\ YF_AVAILABLE = TRUE
    /\ CacheIdle /\ FetchIdle /\ BetaIdle /\ RestIdle
    /\ m_pc = "input" /\ m_df \in Tables /\ m_prices \in PriceMaps
    /\ m_out = <<>> /\ m_enh = <<>>

NextMetrics ==
    \/ ComputeMetrics
    \/ ComputeEnhancedMetrics

\* The metrics engine alone
SpecMetrics == InitMetrics /\ [][NextMetrics]_vars

-----------------------------------------------------------------------------
(* Beta and Alpha: compute_beta_alpha *)

MaxDate == 12       \* trading days a price series can cover

\* The annual risk-free rate, in percent, and the trading days of a year
RISK_FREE_RATE == 2
TradingDays == 252

\* Exact arithmetic on fractions
\* (over the least common denominator and with common factors cancelled
\* first, so that the intermediate products stay small)
RAdd(a, b) ==
    LET g == GCD(a.d, b.d)
    IN  Rat(a.n * (b.d \div g) + b.n * (a.d \div g), (a.d \div g) * b.d)
RNeg(a) == [a EXCEPT !.n = -a.n]
RSub(a, b) == RAdd(a, RNeg(b))
RMul(a, b) ==
    LET x == Rat(a.n, b.d)
        y == Rat(b.n, a.d)
    IN  Rat(x.n * y.n, x.d * y.d)
RInv(a) == Rat(a.d, a.n)
RDiv(a, b) == RMul(a, RInv(b))
RAbsGreater(a, x) == Abs(a.n) > x * a.d

Inf == [k |-> "inf", v |-> 0]

\* Series.pct_change(): from the second row on, price / previous price - 1
PctChange(series) ==
    [i \in 1..(Len(series) - 1) |->
        LET cur == series[i + 1].price
            before == series[i].price
        IN  [date |-> series[i + 1].date,
             r |-> IF before = 0 THEN (IF cur = 0 THEN NaN ELSE Inf)
                   ELSE Rat(cur - before, before)]]

\* .replace([np.inf, -np.inf], np.nan).dropna()
IsFinite(x) == x.r.k = "rat"
DropNonFinite(returns) == SelectSeq(returns, IsFinite)

\* pd.concat([a, b], axis=1, join='inner'): the rows whose date is in both
InnerJoin(a, b) ==
    LET InB(x) == \E j \in 1..Len(b) : b[j].date = x.date
        rows == SelectSeq(a, InB)
    IN  [i \in 1..Len(rows) |->
            [date |-> rows[i].date, a |-> rows[i].r,
             b |-> b[CHOOSE j \in 1..Len(b) : b[j].date = rows[i].date].r]]

\* A test for enough data that lets nine observations through
TooFewBelowNine(n) == n = 0 \/ n < 9

\* aligned_data.empty or len(aligned_data) < 10
TooFew(n) == n = 0 \/ n < 10

\* The sum of the integers xs[lo..hi], by halves
RECURSIVE SumRange(_, _, _)
SumRange(xs, lo, hi) ==
    IF lo > hi THEN 0
    ELSE IF lo = hi THEN xs[lo]
    ELSE SumRange(xs, lo, (lo + hi) \div 2) + SumRange(xs, (lo + hi) \div 2 + 1, hi)

Sum(xs) == SumRange(xs, 1, Len(xs))

\* A common denominator of the returns: the least common multiple of the
\* denominators in rows lo..hi
LCM(x, y) == (x \div GCD(x, y)) * y
RECURSIVE CommonDenominator(_, _, _)
CommonDenominator(rows, lo, hi) ==
    IF lo > hi THEN 1
    ELSE IF lo = hi THEN LCM(rows[lo].a.d, rows[lo].b.d)
    ELSE LCM(CommonDenominator(rows, lo, (lo + hi) \div 2),
             CommonDenominator(rows, (lo + hi) \div 2 + 1, hi))

\* The returns x[i] as integers over the denominator D: x[i] * D
Scaled(x, D) == x.n * (D \div x.d)

\* n * D * (x[i] - mean(x)), for the integers xs[i] = x[i] * D
Deviations(xs) == LET sx == Sum(xs) IN [i \in 1..Len(xs) |-> Len(xs) * xs[i] - sx]

\* mean(x), for the integers xs[i] = x[i] * D
Mean(xs, D) == Rat(Sum(xs), Len(xs) * D)

\* np.cov(x, y)[0, 1]: the sample covariance, sum((x - mean(x)) * (y - mean(y)))
\* / (n - 1), for the integers xs[i] = x[i] * D and ys[i] = y[i] * D
Cov(xs, ys, D) ==
    LET n == Len(xs)
        dx == Deviations(xs)
        dy == Deviations(ys)
    IN  Rat(Sum([i \in 1..n |-> dx[i] * dy[i]]), n * n * D * D * (n - 1))

\* np.var(y): the population variance, sum((y - mean(y)) ** 2) / n
Var(ys, D) ==
    LET n == Len(ys)
        dy == Deviations(ys)
    IN  Rat(Sum([i \in 1..n |-> dy[i] * dy[i]]), n * n * D * D * n)

\* The returns of the two series, cleaned and joined on their dates
AlignedReturns(asset_prices, benchmark_prices) ==
    LET asset_returns == DropNonFinite(PctChange(asset_prices))
        benchmark_returns == DropNonFinite(PctChange(benchmark_prices))
    IN  InnerJoin(asset_returns, benchmark_returns)

\* <<beta, alpha>> from the aligned returns: the length test, the two
\* statistics and their validation
BetaAlphaOf(aligned_data, risk_free_rate) ==
    IF TooFew(Len(aligned_data)) THEN <<NaN, NaN>>
    ELSE
    LET n == Len(aligned_data)
        D == CommonDenominator(aligned_data, 1, n)
        asset_ret == [i \in 1..n |-> Scaled(aligned_data[i].a, D)]
        bench_ret == [i \in 1..n |-> Scaled(aligned_data[i].b, D)]
        covariance == Cov(asset_ret, bench_ret, D)
        benchmark_variance == Var(bench_ret, D)
        beta == IF benchmark_variance.n = 0 THEN NaN
                ELSE RDiv(covariance, benchmark_variance)
        asset_mean_return == Mean(asset_ret, D)
        benchmark_mean_return == Mean(bench_ret, D)
        daily_rf_rate == Rat(risk_free_rate, 100 * TradingDays)
        expected_return ==
            RAdd(daily_rf_rate, RMul(beta, RSub(benchmark_mean_return, daily_rf_rate)))
        alpha == IF IsNaN(beta) THEN NaN ELSE RSub(asset_mean_return, expected_return)
    IN  << IF ~IsNaN(beta) /\ RAbsGreater(beta, 10) THEN NaN ELSE beta,
           IF ~IsNaN(alpha) /\ RAbsGreater(alpha, 1) THEN NaN ELSE alpha >>

\* The price series the statistic is exercised with: a shape of prices over
\* the days lo..hi, one day possibly missing
Shapes == {"alt", "cycle", "flat", "dip"}
PriceOn(shape, d) ==
    CASE shape = "alt" -> IF d % 2 = 1 THEN 1 ELSE 2
      [] shape = "cycle" -> IF d % 3 = 0 THEN 2 ELSE 1
      [] shape = "flat" -> 1
      [] shape = "dip" -> IF d = 5 THEN 0 ELSE IF d % 2 = 1 THEN 1 ELSE 2
      [] shape = "late" -> IF d = 15 THEN 0 ELSE IF d % 2 = 1 THEN 1 ELSE 2

RECURSIVE PriceSeries(_, _, _, _)
PriceSeries(shape, lo, hi, gap) ==
    IF lo > hi THEN <<>>
    ELSE (IF lo = gap THEN <<>> ELSE <<[date |-> lo, price |-> PriceOn(shape, lo)]>>)
         \o PriceSeries(shape, lo + 1, hi, gap)

AssetSeries == {PriceSeries(sh, lo, MaxDate, 0) : sh \in Shapes, lo \in 1..(MaxDate + 1)}
BenchmarkSeries ==
    {PriceSeries(sh, 1, hi, gap) : sh \in Shapes, hi \in 0..MaxDate, gap \in {0, 4}}

BetaFrame == UNCHANGED <<YF_AVAILABLE, cacheVars, fetchVars, metricVars, restVars>>

\* compute_beta_alpha, up to the aligned returns: the empty-series return,
\* pct_change, the cleaning and the join
BetaAlign ==
    /\ b_pc = "input"
    /\ IF b_asset = <<>> \/ b_bench = <<>>
       THEN b_pc' = "returned" /\ b_out' = <<NaN, NaN>> /\ UNCHANGED b_aligned
       ELSE /\ b_pc' = "aligned"
            /\ b_aligned' = AlignedReturns(b_asset, b_bench)
            /\ UNCHANGED b_out
    /\ UNCHANGED <<b_asset, b_bench>>
    /\ BetaFrame

\* compute_beta_alpha, from the aligned returns to the return
BetaCompute ==
    /\ b_pc = "aligned"
    /\ b_pc' = "returned"
    /\ b_out' = BetaAlphaOf(b_aligned, RISK_FREE_RATE)
    /\ UNCHANGED <<b_asset, b_bench, b_aligned>>
    /\ BetaFrame

InitBeta ==
    /\ YF_AVAILABLE = TRUE
    /\ CacheIdle /\ FetchIdle /\ MetricsIdle /\ RestIdle
    /\ b_pc = "input" /\ b_asset \in AssetSeries /\ b_bench \in BenchmarkSeries
    /\ b_aligned = <<>> /\ b_out = <<>>

NextBeta ==
    \/ BetaAlign
    \/ BetaCompute

\* The beta/alpha statistic alone
SpecBeta == InitBeta /\ [][NextBeta]_vars

-----------------------------------------------------------------------------
(* Ticker validation: validate_tickers_enhanced *)

ValidateFrame ==
    UNCHANGED <<YF_AVAILABLE, cacheVars, fetchVars, metricVars, betaVars, recVars, authVars,
                chainVars, histVars, moreVars>>

\* An unavailable branch that still looks tickers up in the static table
UnavailableResultKnownValid(tickers) ==
    [k \in {Upper(tickers[i]) : i \in 1..Len(tickers)} |->
        IF Strip(k) \in DOMAIN PopularAssets
        THEN [valid |-> TRUE, reason |-> "popular asset"]
        ELSE [valid |-> FALSE, reason |-> "yfinance unavailable"]]

\* {str(t).upper(): {"valid": False, "reason": "yfinance unavailable"} for t in tickers}
UnavailableResult(tickers) ==
    [k \in {Upper(tickers[i]) : i \in 1..Len(tickers)} |->
        [valid |-> FALSE, reason |-> "yfinance unavailable"]]

\* What yfinance does for one ticker: the Ticker constructor, then the
\* fast_info, history and info probes; each finds something ("ok"), finds
\* nothing ("no") or raises ("exc")
ProbeBehaviours ==
    {[ctor |-> "exc", fast_info |-> "no", history |-> "no", info |-> "no"],
     [ctor |-> "ok", fast_info |-> "ok", history |-> "exc", info |-> "exc"],
     [ctor |-> "ok", fast_info |-> "exc", history |-> "ok", info |-> "exc"],
     [ctor |-> "ok", fast_info |-> "no", history |-> "no", info |-> "ok"],
     [ctor |-> "ok", fast_info |-> "no", history |-> "exc", info |-> "no"],
     [ctor |-> "ok", fast_info |-> "exc", history |-> "exc", info |-> "exc"]}

\* One iteration of the loop over tickers: the key written, its entry, and
\* the yfinance calls made on the way
ValidateOne(ticker, beh) ==
    LET ticker_clean == Strip(Upper(ticker))
    IN  IF ticker_clean = <<>>
        THEN [key |-> ticker_clean, net |-> <<>>,
              entry |-> [valid |-> FALSE, reason |-> "empty ticker"]]
        ELSE IF ticker_clean \in DOMAIN PopularAssets
        THEN [key |-> ticker_clean, net |-> <<>>,
              entry |-> [valid |-> TRUE, reason |-> "popular asset",
                         name |-> PopularAssets[ticker_clean]]]
        ELSE IF beh.ctor = "exc"
        THEN [key |-> ticker_clean, net |-> << <<ticker_clean, "Ticker">> >>,
              entry |-> [valid |-> FALSE, reason |-> "validation error"]]
        ELSE IF beh.fast_info = "ok"
        THEN [key |-> ticker_clean,
              net |-> << <<ticker_clean, "Ticker">>, <<ticker_clean, "fast_info">> >>,
              entry |-> [valid |-> TRUE, reason |-> "validated via fast_info"]]
        ELSE IF beh.history = "ok"
        THEN [key |-> ticker_clean,
              net |-> << <<ticker_clean, "Ticker">>, <<ticker_clean, "fast_info">>,
                         <<ticker_clean, "history">> >>,
              entry |-> [valid |-> TRUE, reason |-> "validated via history"]]
        ELSE IF beh.info = "ok"
        THEN [key |-> ticker_clean,
              net |-> << <<ticker_clean, "Ticker">>, <<ticker_clean, "fast_info">>,
                         <<ticker_clean, "history">>, <<ticker_clean, "info">> >>,
              entry |-> [valid |-> TRUE, reason |-> "validated via info", name |-> ""]]
        ELSE [key |-> ticker_clean,
              net |-> << <<ticker_clean, "Ticker">>, <<ticker_clean, "fast_info">>,
                         <<ticker_clean, "history">>, <<ticker_clean, "info">> >>,
              entry |-> [valid |-> FALSE, reason |-> "not found in any yfinance method"]]

\* The ticker lists validation is exercised with
ValidateRequests ==
    { <<>>, << <<" ">> >>, << <<"a">> >>, << <<" ", "A">> >>, << <<"b">> >>,
      << <<"a">>, <<"b">> >>, << <<"B">>, <<" ", "A">> >>, << <<" ">>, <<"b">> >>,
      << <<"b">>, <<"a">>, <<"B">> >> }

\* Entry: results = {} and the YF_AVAILABLE check
ValidateBegin ==
    \E tickers \in ValidateRequests :
        /\ v_pc = "idle"
        /\ v_req' = tickers
        /\ v_net' = <<>>
        /\ IF ~YF_AVAILABLE
           THEN v_pc' = "done" /\ v_out' = UnavailableResult(tickers) /\ v_idx' = 0
           ELSE v_pc' = "loop" /\ v_out' = EmptyMap /\ v_idx' = 1
        /\ ValidateFrame

\* for ticker in tickers
ValidateTicker ==
    \E beh \in ProbeBehaviours :
        LET r == ValidateOne(v_req[v_idx], beh)
        IN  /\ v_pc = "loop" /\ v_idx <= Len(v_req)
            /\ v_out' = (r.key :> r.entry) @@ v_out
            /\ v_net' = v_net \o r.net
            /\ v_idx' = v_idx + 1
            /\ UNCHANGED <<v_pc, v_req>>
            /\ ValidateFrame

\* return results
ValidateReturn ==
    /\ v_pc = "loop" /\ v_idx > Len(v_req)
    /\ v_pc' = "done"
    /\ UNCHANGED <<v_req, v_idx, v_out, v_net>>
    /\ ValidateFrame

NextValidate ==
    \/ ValidateBegin
    \/ ValidateTicker
    \/ ValidateReturn

SpecValidate == InitCache /\ [][NextValidate]_vars

-----------------------------------------------------------------------------
(* Advisory notes: generate_portfolio_recommendations *)
(* A note is its severity tag and its title; the description, built from   *)
(* the tickers of the rows a rule selected, is left out. Beta and Sharpe   *)
(* are carried in tenths, the other columns in units.                      *)

RecFrame ==
    UNCHANGED <<YF_AVAILABLE, cacheVars, fetchVars, metricVars, betaVars, validateVars,
                authVars, chainVars, histVars, moreVars>>

Note(type, title) == [type |-> type, title |-> title]

\* A missing Asset Type cell
NoType == "<NA>"

\* pd.DataFrame()
NoTable == [cols |-> {}, rows |-> <<>>]

\* metrics_df is None or metrics_df.empty
RecEmpty(df) == df.rows = <<>>

\* column > x and column < x on one cell: comparisons with nan are False
Above(p, x) == ~IsNaN(p) /\ p.v > x
Below(p, x) == ~IsNaN(p) /\ p.v < x

\* metrics_df[metrics_df[col] > x] and [col] < x are not empty
AnyAbove(df, col, x) == \E i \in 1..Len(df.rows) : Above(df.rows[i][col], x)
AnyBelow(df, col, x) == \E i \in 1..Len(df.rows) : Below(df.rows[i][col], x)

\* Series.sum() of the Weight % of the rows of one asset type, nan skipped
RECURSIVE TypeWeight(_, _, _)
TypeWeight(df, ty, i) ==
    IF i = 0 THEN 0
    ELSE TypeWeight(df, ty, i - 1)
         + (IF df.rows[i]["Asset Type"] = ty /\ ~IsNaN(df.rows[i]["Weight %"])
            THEN df.rows[i]["Weight %"].v ELSE 0)

\* metrics_df.groupby('Asset Type')['Weight %'].sum(): rows without a type
\* belong to no group
allocation(df) ==
    [ty \in {df.rows[i]["Asset Type"] : i \in 1..Len(df.rows)} \ {NoType} |->
        TypeWeight(df, ty, Len(df.rows))]

\* allocation.max()
max_allocation(df) ==
    CHOOSE x \in {allocation(df)[ty] : ty \in DOMAIN allocation(df)} :
        \A ty \in DOMAIN allocation(df) : allocation(df)[ty] <= x

\* A diversification rule that warns from 70 on
HighConcentrationFrom70(x) == x >= 70

\* max_allocation > 70
HighConcentration(x) == x > 70

\* elif max_allocation > 50
MonitorConcentration(x) == ~HighConcentration(x) /\ x > 50

\* 1. Diversification Analysis
DiversificationNotes(df) ==
    IF {"Asset Type", "Weight %"} \subseteq df.cols /\ DOMAIN allocation(df) # {}
    THEN IF HighConcentration(max_allocation(df))
         THEN <<Note("warning", "High Concentration Risk")>>
         ELSE IF MonitorConcentration(max_allocation(df))
         THEN <<Note("info", "Monitor Concentration")>>
         ELSE <<>>
    ELSE <<>>

\* One rule on one column: the note when some row is selected
RuleNote(df, col, fires, type, title) ==
    IF col \in df.cols /\ fires THEN <<Note(type, title)>> ELSE <<>>

\* 2. Performance Analysis
PerformanceNotes(df) ==
    RuleNote(df, "P/L %", AnyBelow(df, "P/L %", -20), "warning", "Significant Losses")
    \o RuleNote(df, "P/L %", AnyAbove(df, "P/L %", 100), "success", "Exceptional Performers")

\* 3. Volatility Analysis
VolatilityNotes(df) ==
    RuleNote(df, "Volatility", AnyAbove(df, "Volatility", 40), "warning",
             "High Volatility Alert")

\* 4. RSI-based Technical Analysis
RsiNotes(df) ==
    RuleNote(df, "RSI", AnyBelow(df, "RSI", 30), "info", "Potentially Oversold Assets")
    \o RuleNote(df, "RSI", AnyAbove(df, "RSI", 70), "info", "Potentially Overbought Assets")

\* 5. Beta Analysis: 1.5 and 0.5, in tenths
BetaNotes(df) ==
    RuleNote(df, "Beta", AnyAbove(df, "Beta", 15), "info", "High Beta Exposure")
    \o RuleNote(df, "Beta", AnyBelow(df, "Beta", 5) /\ Len(df.rows) > 5, "success",
                "Defensive Positions")

\* 6. Sharpe Ratio Analysis: 1.0 and 0, in tenths
SharpeNotes(df) ==
    RuleNote(df, "Sharpe", AnyAbove(df, "Sharpe", 10), "success",
             "Strong Risk-Adjusted Returns")
    \o RuleNote(df, "Sharpe", AnyBelow(df, "Sharpe", 0), "warning",
                "Poor Risk-Adjusted Returns")

\* 7. Portfolio Size Analysis
SizeNotes(df) ==
    IF Len(df.rows) < 5 THEN <<Note("info", "Small Portfolio")>>
    ELSE IF Len(df.rows) > 50 THEN <<Note("info", "Large Portfolio")>>
    ELSE <<>>

\* 8. Position Sizing Analysis
PositionNotes(df) ==
    RuleNote(df, "Weight %", AnyAbove(df, "Weight %", 10), "warning", "Large Position Sizes")

\* 9. Missing Data Warning
MissingNotes(df) ==
    RuleNote(df, "Current Price",
             \E i \in 1..Len(df.rows) : IsNaN(df.rows[i]["Current Price"]),
             "warning", "Missing Price Data")

\* The notes of rules 1 to 9, in the order of evaluation
RuleNotes(df) ==
    DiversificationNotes(df) \o PerformanceNotes(df) \o VolatilityNotes(df)
    \o RsiNotes(df) \o BetaNotes(df) \o SharpeNotes(df) \o SizeNotes(df)
    \o PositionNotes(df) \o MissingNotes(df)

\* A KeyError inside the try: metrics_df['Current Price'] of rule 9 is read
\* unconditionally, and every rule but 1, 5 (high beta) and 7 reads
\* ['Ticker'] of the rows it selected
RecRaises(df) ==
    \/ "Current Price" \notin df.cols
    \/ /\ "Ticker" \notin df.cols
       /\ \E i \in 1..Len(RuleNotes(df)) :
             RuleNotes(df)[i].title \notin
                 {"High Concentration Risk", "Monitor Concentration", "High Beta Exposure",
                  "Small Portfolio", "Large Portfolio"}

HealthNote == Note("success", "Portfolio Health Check")

\* not recommendations or all(r.get("type") in ["success", "info"] ...)
HealthDue(recommendations) ==
    \A i \in 1..Len(recommendations) : recommendations[i].type \in {"success", "info"}

\* generate_portfolio_recommendations(metrics_df)
generate_portfolio_recommendations(metrics_df) ==
    IF RecEmpty(metrics_df) THEN <<>>
    ELSE IF RecRaises(metrics_df) THEN <<Note("info", "Analysis Unavailable")>>
    ELSE LET recommendations == RuleNotes(metrics_df)
         IN  IF HealthDue(recommendations) THEN Append(recommendations, HealthNote)
             ELSE recommendations

\* The tables the rules are exercised with. Weight % per row; a row without
\* a price has no weight and no P/L %
W(ws) == [i \in 1..Len(ws) |-> IF ws[i] < 0 THEN NaN ELSE Num(ws[i])]
WeightProfiles ==
    { W(<<100>>), W(<<50, 50>>), W(<<80, 20>>), W(<<71, 29>>), W(<<70, 30>>),
      W(<<51, 49>>), W(<<-1, 100>>), W(<<20, 20, 20, 20, 20>>),
      W(<<10, 10, 10, 10, 10, 10, 10, 10, 10, 10>>),
      W(<<10, 10, 10, 10, 10, 10, 10, 10, 10, 5, 5>>),
      [i \in 1..51 |-> IF i <= 49 THEN Num(2) ELSE Num(1)] }
TypeModes == {"same", "alternate", "first", "untyped", "absent"}
TypeOf(mode, i) ==
    CASE mode = "same" -> "Stock"
      [] mode = "alternate" -> IF i % 2 = 1 THEN "Stock" ELSE "ETF"
      [] mode = "first" -> IF i = 1 THEN "Stock" ELSE "ETF"
      [] OTHER -> NoType
PlModes == {"flat", "loss", "gain", "edge"}
PlOf(mode, i) ==
    CASE mode = "loss" /\ i = 1 -> Num(-30)
      [] mode = "gain" /\ i = 1 -> Num(150)
      [] mode = "edge" /\ i = 1 -> Num(100)
      [] OTHER -> Num(0)
AdvModes == {"absent", "neutral", "hot", "calm"}
AdvOf(mode, c) ==
    CASE mode = "hot" -> (CASE c = "Volatility" -> Num(50) [] c = "RSI" -> Num(80)
                            [] c = "Beta" -> Num(20) [] c = "Sharpe" -> Num(-5)
                            [] OTHER -> NaN)
      [] mode = "calm" -> (CASE c = "Volatility" -> Num(40) [] c = "RSI" -> Num(20)
                            [] c = "Beta" -> Num(3) [] c = "Sharpe" -> Num(15)
                            [] OTHER -> Num(0))
      [] OTHER -> (CASE c = "Volatility" -> Num(20) [] c = "RSI" -> NaN
                            [] c = "Beta" -> Num(10) [] c = "Sharpe" -> Num(5)
                            [] OTHER -> Num(0))
\* The columns compute_metrics writes next to those of the holdings
MetricsColumns == {"Ticker", "Current Price", "Total Value", "P/L %", "Weight %"}
ColumnModes == {"metrics", "no price", "no ticker"}
RecColumns(tm, am, cm) ==
    ((MetricsColumns \cup (IF tm = "absent" THEN {} ELSE {"Asset Type"})
        \cup (IF am = "absent" THEN {} ELSE advanced_cols))
     \ (IF cm = "no price" THEN {"Current Price"} ELSE {}))
     \ (IF cm = "no ticker" THEN {"Ticker"} ELSE {})
RecTable(ws, tm, pm, am, cm) ==
    [cols |-> RecColumns(tm, am, cm),
     rows |-> [i \in 1..Len(ws) |->
                [c \in RecColumns(tm, am, cm) |->
                    CASE c = "Ticker" -> <<"A">>
                      [] c = "Asset Type" -> TypeOf(tm, i)
                      [] c = "Weight %" -> ws[i]
                      [] c = "Current Price" -> IF IsNaN(ws[i]) THEN NaN ELSE Num(10)
                      [] c = "Total Value" -> IF IsNaN(ws[i]) THEN NaN ELSE ws[i]
                      [] c = "P/L %" -> IF IsNaN(ws[i]) THEN NaN ELSE PlOf(pm, i)
                      [] OTHER -> AdvOf(am, c)]]]
RecTables ==
    {NoTable} \cup
    {RecTable(ws, tm, pm, am, cm) :
        ws \in WeightProfiles, tm \in TypeModes, pm \in PlModes, am \in AdvModes,
        cm \in ColumnModes}

GenerateRecommendations ==
    /\ r_pc = "input"
    /\ r_pc' = "done"
    /\ r_out' = generate_portfolio_recommendations(r_df)
    /\ UNCHANGED r_df
    /\ RecFrame

InitRec ==
    /\ YF_AVAILABLE = TRUE
    /\ CacheIdle /\ FetchIdle /\ MetricsIdle /\ BetaIdle /\ ValidateIdle /\ AuthIdle
    /\ ChainIdle /\ HistIdle /\ MoreIdle
    /\ r_pc = "input" /\ r_df \in RecTables /\ r_out = <<>>

NextRec == GenerateRecommendations

SpecRec == InitRec /\ [][NextRec]_vars

-----------------------------------------------------------------------------
(* auth.py: the user store, password hashing, the lockout, register_user   *)
(* and authenticate_user.                                                  *)
(* User input is a tuple of characters; a dict key is the string they      *)
(* spell. A timestamp is <<t>>, the ISO text of minute t, and <<>> is ''.  *)

AuthFrame ==
    UNCHANGED <<YF_AVAILABLE, cacheVars, fetchVars, metricVars, betaVars, validateVars,
                recVars, chainVars, histVars, moreVars>>

MaxAuthCalls == 3       \* calls in one run of registrations and logins
MaxLogins == 6          \* calls in one run of logins to one account
MaxAuthTicks == 2       \* clock advances in one run

MAX_LOGIN_ATTEMPTS == 5
LOCKOUT_DURATION_MINUTES == 15
APP_VERSION == "2.2.0"

Uppers == <<"A", "B", "C", "D", "E", "F", "G", "H", "I", "J", "K", "L", "M",
            "N", "O", "P", "Q", "R", "S", "T", "U", "V", "W", "X", "Y", "Z">>
Lowers == <<"a", "b", "c", "d", "e", "f", "g", "h", "i", "j", "k", "l", "m",
            "n", "o", "p", "q", "r", "s", "t", "u", "v", "w", "x", "y", "z">>
Digits == {"0", "1", "2", "3", "4", "5", "6", "7", "8", "9"}

\* str.lower()
LowerChar(c) ==
    IF \E i \in 1..26 : Uppers[i] = c THEN Lowers[CHOOSE i \in 1..26 : Uppers[i] = c] ELSE c
Lower(s) == [i \in 1..Len(s) |-> LowerChar(s[i])]

\* The string a tuple of characters spells
RECURSIVE Str(_)
Str(s) == IF s = <<>> THEN "" ELSE Head(s) \o Str(Tail(s))

\* c.isalpha(), c.isdigit()
IsAlpha(c) == c \in Range(Uppers) \cup Range(Lowers)
IsDigit(c) == c \in Digits

\* datetime.now().isoformat() and datetime.fromisoformat()
IsoFormat(t) == <<t>>
FromIsoFormat(text) == text[1]

\* sanitize_username: strip, lower, drop the other characters, 50 at most
sanitize_username(username) ==
    LET cleaned == SelectSeq(Lower(Strip(username)),
                             LAMBDA c : c \in Range(Lowers) \cup Digits \cup {"_", "-"})
    IN  SubSeq(cleaned, 1, IF Len(cleaned) > 50 THEN 50 ELSE Len(cleaned))

reserved == {"admin", "root", "system", "test", "user", "guest", "demo"}

\* validate_username(username)[0]
validate_username(username) ==
    LET u == Strip(username)
    IN  /\ username # <<>>
        /\ Len(u) >= 3
        /\ Len(u) <= 50
        /\ \A i \in 1..Len(u) : IsAlpha(u[i]) \/ IsDigit(u[i]) \/ u[i] \in {"_", "-"}
        /\ u[1] \notin {"_", "-"} /\ u[Len(u)] \notin {"_", "-"}
        /\ Str(Lower(u)) \notin reserved

weak_passwords == {"password", "123456", "password123", "admin", "qwerty"}

\* validate_password(password)[0]
validate_password(password) ==
    /\ password # <<>>
    /\ Len(password) >= 6
    /\ Len(password) <= 256
    /\ \E i \in 1..Len(password) : IsAlpha(password[i])
    /\ \E i \in 1..Len(password) : IsDigit(password[i])
    /\ Str(Lower(password)) \notin weak_passwords

\* base64.b64encode(x).decode() and base64.b64decode(y)
B64Encode(x) == <<"b64", x>>
B64Decode(y) == y[2]

\* hashlib.pbkdf2_hmac('sha256', password, salt, iterations): one value per
\* password and salt
Pbkdf2(password, salt) == <<"pbkdf2", password, salt>>

\* secrets.token_bytes(SALT_LENGTH)
Salts == {"salt-1", "salt-2"}

\* _hash_password(password, salt): the pair of encoded salt and hash
hash_password(password, salt) ==
    [salt |-> B64Encode(salt), hash |-> B64Encode(Pbkdf2(password, salt))]

\* A verification that accepts every password for a stored record
verify_password_any(password, stored_salt, stored_hash) ==
    password # <<>> /\ stored_salt # <<>> /\ stored_hash # <<>>

\* _verify_password(password, stored_salt, stored_hash)
verify_password(password, stored_salt, stored_hash) ==
    /\ password # <<>> /\ stored_salt # <<>> /\ stored_hash # <<>>
    /\ Len(password) <= 256
    /\ hash_password(password, B64Decode(stored_salt)).hash = stored_hash

\* load_users(): the entries of the top-level dict that have 'salt' and 'hash'
load_users(file) ==
    IF ~file.exists THEN EmptyMap
    ELSE [k \in {k \in DOMAIN file.data : {"salt", "hash"} \subseteq DOMAIN file.data[k]} |->
            file.data[k]]

\* load_users_from_file()
load_users_from_file(file) ==
    LET data == load_users(file)
    IN  IF "metadata" \in DOMAIN data /\ "users" \in DOMAIN data THEN data["users"] ELSE data

\* save_users accepts the dict: every record has 'salt' and 'hash'
SaveUsersOk(users) == \A u \in DOMAIN users : {"salt", "hash"} \subseteq DOMAIN users[u]

\* save_users(users): the file it writes
SavedUsers(users, t) ==
    [exists |-> TRUE,
     data |-> [metadata |-> [version |-> APP_VERSION, last_updated |-> IsoFormat(t),
                             created_by |-> "Portfolio Manager Pro",
                             user_count |-> Cardinality(DOMAIN users)],
               users |-> users]]

\* load_login_attempts(), and the 'attempts' entry of the new file format
load_login_attempts(file) == IF ~file.exists THEN EmptyMap ELSE file.data
AttemptsOf(file) ==
    LET attempts_data == load_login_attempts(file)
    IN  IF "attempts" \in DOMAIN attempts_data THEN attempts_data["attempts"]
        ELSE attempts_data

\* save_login_attempts(attempts): the file it writes
SavedAttempts(attempts, t) ==
    [exists |-> TRUE,
     data |-> [metadata |-> [version |-> APP_VERSION, last_updated |-> IsoFormat(t)],
               attempts |-> attempts]]

\* A lockout that ends when the duration has passed, not after it
LockoutExpiredAtLimit(time_since_attempt) == time_since_attempt >= LOCKOUT_DURATION_MINUTES

\* time_since_attempt > lockout_duration
LockoutExpired(time_since_attempt) == time_since_attempt > LOCKOUT_DURATION_MINUTES

\* is_account_locked(username): the answer, and the attempts file afterwards
is_account_locked(file, username, t) ==
    LET attempts_data == AttemptsOf(file)
        user_attempts == Get(attempts_data, username, EmptyMap)
        failed_count == Get(user_attempts, "failed_count", 0)
        last_attempt_str == Get(user_attempts, "last_attempt", <<>>)
    IN  IF user_attempts = EmptyMap THEN [locked |-> FALSE, file |-> file]
        ELSE IF failed_count < MAX_LOGIN_ATTEMPTS THEN [locked |-> FALSE, file |-> file]
        ELSE IF last_attempt_str = <<>> THEN [locked |-> FALSE, file |-> file]
        ELSE IF LockoutExpired(t - FromIsoFormat(last_attempt_str))
        THEN [locked |-> FALSE,
              file |-> SavedAttempts(
                  (username :> (("failed_count" :> 0) @@ user_attempts)) @@ attempts_data, t)]
        ELSE [locked |-> TRUE, file |-> file]

\* record_login_attempt(username, success): the attempts file afterwards
record_login_attempt(file, username, success, t) ==
    LET attempts_data == AttemptsOf(file)
        before == IF username \in DOMAIN attempts_data THEN attempts_data[username]
                  ELSE [failed_count |-> 0, last_attempt |-> <<>>,
                        first_attempt |-> IsoFormat(t), total_attempts |-> 0]
        stamped == ("last_attempt" :> IsoFormat(t))
                   @@ ("total_attempts" :> Get(before, "total_attempts", 0) + 1) @@ before
        user_attempts ==
            IF success
            THEN ("failed_count" :> 0) @@ ("last_success" :> IsoFormat(t)) @@ stamped
            ELSE ("failed_count" :> Get(stamped, "failed_count", 0) + 1) @@ stamped
    IN  SavedAttempts((username :> user_attempts) @@ attempts_data, t)

\* The record register_user creates
NewUserRecord(salt, hashed_password, t) ==
    [salt |-> salt, hash |-> hashed_password, created_at |-> IsoFormat(t),
     last_login |-> <<>>, login_count |-> 0, app_version |-> APP_VERSION,
     account_status |-> "active", password_changed_at |-> IsoFormat(t)]

\* What callers type
Usernames == { <<"A", "l", "i">>, <<"b", "o", "b">> }
GoodPassword == <<"p", "a", "s", "s", "1", "2">>
WrongPassword == <<"w", "o", "r", "d", "3", "4">>
Passwords == { GoodPassword, <<"w", "o", "r", "d", "3", "4">>, <<>> }

\* The observation of one call
AuthCall(op, key, password, result, locked, users_file) ==
    [op |-> op, user |-> key, password |-> password, result |-> result, at |-> clock,
     locked |-> locked, wasRegistered |-> key \in DOMAIN registered,
     streakBefore |-> Get(streak, key, 0),
     countBefore |-> Get(Get(AttemptsOf(LOGIN_ATTEMPTS_FILE), key, EmptyMap),
                         "failed_count", 0),
     lastAttemptBefore |-> Get(Get(AttemptsOf(LOGIN_ATTEMPTS_FILE), key, EmptyMap),
                               "last_attempt", <<>>),
     usersChanged |-> users_file # USERS_FILE]

\* register_user(username, password)
register_user(username, password, new_salt, limit) ==
    LET username_clean == sanitize_username(username)
        key == Str(username_clean)
        users == load_users_from_file(USERS_FILE)
        hashed == hash_password(password, new_salt)
        added == (key :> NewUserRecord(hashed.salt, hashed.hash, clock)) @@ users
        ok == /\ validate_username(username_clean)
              /\ validate_password(password)
              /\ key \notin DOMAIN users
              /\ SaveUsersOk(added)
    IN  /\ a_calls < limit
        /\ a_calls' = a_calls + 1
        /\ USERS_FILE' = IF ok THEN SavedUsers(added, clock) ELSE USERS_FILE
        /\ LOGIN_ATTEMPTS_FILE' =
              IF ok THEN record_login_attempt(LOGIN_ATTEMPTS_FILE, key, TRUE, clock)
              ELSE LOGIN_ATTEMPTS_FILE
        /\ a_last' = AuthCall("register", key, password, ok, FALSE, USERS_FILE')
        /\ registered' = IF ok THEN (key :> password) @@ registered ELSE registered
        /\ UNCHANGED <<clock, a_ticks, streak>>
        /\ AuthFrame

RegisterUser ==
    \E username \in Usernames, password \in Passwords, new_salt \in Salts :
        register_user(username, password, new_salt, MaxAuthCalls)

\* authenticate_user(username, password) on the two files at time t: what it
\* returns, whether the lock turned it down, and the files afterwards
authenticate(users_file, attempts_file, username, password, t) ==
    LET username_clean == sanitize_username(username)
        key == Str(username_clean)
        empty == username_clean = <<>> \/ password = <<>>
        lock == is_account_locked(attempts_file, key, t)
        is_locked == ~empty /\ lock.locked
        users == load_users_from_file(users_file)
        found == key \in DOMAIN users
        user_record == users[key]
        sound == found /\ {"salt", "hash"} \subseteq DOMAIN user_record
        disabled == sound /\ Get(user_record, "account_status", "active") = "disabled"
        verified == sound /\ ~disabled
                    /\ verify_password(password, user_record["salt"], user_record["hash"])
        result == ~empty /\ ~is_locked /\ verified
        updated == ("last_login" :> IsoFormat(t))
                   @@ ("login_count" :> Get(user_record, "login_count", 0) + 1)
                   @@ ("last_app_version" :> APP_VERSION) @@ user_record
        saved == (key :> updated) @@ users
    IN  [result |-> result,
         locked |-> is_locked,
         users_file |-> IF result /\ SaveUsersOk(saved) THEN SavedUsers(saved, t)
                        ELSE users_file,
         attempts_file |->
              IF empty
              THEN record_login_attempt(attempts_file,
                                        IF key = "" THEN "unknown" ELSE key, FALSE, t)
              ELSE IF is_locked THEN attempts_file
              ELSE record_login_attempt(lock.file, key, result, t)]

\* The failures in a row of a username after one more authenticate_user call
StreakAfter(key, result) ==
    LET before == Get(streak, key, 0)
        last_text == Get(Get(AttemptsOf(LOGIN_ATTEMPTS_FILE), key, EmptyMap),
                         "last_attempt", <<>>)
        over == before >= MAX_LOGIN_ATTEMPTS
                /\ (last_text = <<>> \/ clock - FromIsoFormat(last_text)
                                          > LOCKOUT_DURATION_MINUTES)
    IN  (key :> (IF result THEN 0 ELSE (IF over THEN 0 ELSE before) + 1)) @@ streak

\* authenticate_user(username, password)
authenticate_user(username, password, limit) ==
    LET key == Str(sanitize_username(username))
        call == authenticate(USERS_FILE, LOGIN_ATTEMPTS_FILE, username, password, clock)
    IN  /\ a_calls < limit
        /\ a_calls' = a_calls + 1
        /\ USERS_FILE' = call.users_file
        /\ LOGIN_ATTEMPTS_FILE' = call.attempts_file
        /\ a_last' = AuthCall("login", key, password, call.result, call.locked, USERS_FILE')
        /\ streak' = StreakAfter(key, call.result)
        /\ UNCHANGED <<clock, a_ticks, registered>>
        /\ AuthFrame

AuthenticateUser ==
    \E username \in Usernames, password \in Passwords :
        authenticate_user(username, password, MaxAuthCalls)

\* The wall clock moves on
AuthTickSteps == {LOCKOUT_DURATION_MINUTES}
AuthTick ==
    \E d \in AuthTickSteps :
        /\ a_ticks < MaxAuthTicks
        /\ a_ticks' = a_ticks + 1
        /\ clock' = clock + d
        /\ UNCHANGED <<USERS_FILE, LOGIN_ATTEMPTS_FILE, a_calls, a_last, registered, streak>>
        /\ AuthFrame

\* The users file the program starts with: none, or one written before the
\* metadata format, which load_users_from_file still reads
LegacyRecord(status) ==
    [salt |-> hash_password(GoodPassword, "salt-1").salt,
     hash |-> hash_password(GoodPassword, "salt-1").hash,
     account_status |-> status]
LegacyUsers ==
    [exists |-> TRUE,
     data |-> ("ali" :> LegacyRecord("active")) @@ ("bob" :> LegacyRecord("disabled"))]
InitialUsersFiles == {NoFile, LegacyUsers}

InitAuth ==
    /\ YF_AVAILABLE = TRUE
    /\ CacheIdle /\ FetchIdle /\ MetricsIdle /\ BetaIdle /\ ValidateIdle /\ RecIdle
    /\ ChainIdle /\ HistIdle /\ MoreIdle
    /\ USERS_FILE \in InitialUsersFiles /\ LOGIN_ATTEMPTS_FILE = NoFile /\ clock = 0
    /\ a_calls = 0 /\ a_ticks = 0 /\ a_last = NoAuthCall
    /\ registered = EmptyMap /\ streak = EmptyMap

NextAuth ==
    \/ RegisterUser
    \/ AuthenticateUser

\* Registrations and logins of two users
SpecAuth == InitAuth /\ [][NextAuth]_vars

\* The calls for one account the lockout is exercised with
Register ==
    register_user(<<"A", "l", "i">>, GoodPassword, "salt-2", MaxLogins)

Login ==
    \E password \in {GoodPassword, <<"w", "o", "r", "d", "3", "4">>} :
        authenticate_user(<<"A", "l", "i">>, password, MaxLogins)

NextLockout ==
    \/ Login
    \/ Register
    \/ AuthTick

\* Logins to one account while the clock moves
SpecLockout == InitAuth /\ [][NextLockout]_vars

\* The attempts file after five failed logins of "ali" at minute 0
LockedAttempts ==
    SavedAttempts("ali" :> [failed_count |-> MAX_LOGIN_ATTEMPTS, last_attempt |-> IsoFormat(0),
                            first_attempt |-> IsoFormat(0),
                            total_attempts |-> MAX_LOGIN_ATTEMPTS], 0)

\* The program without a users file, with one in the old format or with
\* the same users saved by save_users, and with "ali" free or just locked out
InitLogin ==
    /\ YF_AVAILABLE = TRUE
    /\ CacheIdle /\ FetchIdle /\ MetricsIdle /\ BetaIdle /\ ValidateIdle /\ RecIdle
    /\ ChainIdle /\ HistIdle /\ MoreIdle
    /\ USERS_FILE \in InitialUsersFiles \cup {SavedUsers(load_users_from_file(LegacyUsers), 0)}
    /\ clock = 0
    /\ \/ LOGIN_ATTEMPTS_FILE = NoFile /\ streak = EmptyMap
       \/ LOGIN_ATTEMPTS_FILE = LockedAttempts /\ streak = ("ali" :> MAX_LOGIN_ATTEMPTS)
    /\ a_calls = 0 /\ a_ticks = 0 /\ a_last = NoAuthCall
    /\ registered = EmptyMap

NextLogin ==
    \/ AuthenticateUser
    \/ AuthTick

\* Logins of two users, one of them possibly locked out
SpecLogin == InitLogin /\ [][NextLogin]_vars

-----------------------------------------------------------------------------
(* The other public operations on the users and attempts files *)

\* timedelta(days=1) in the minutes of the clock
MinutesPerDay == 1440

\* The default of days_old
DefaultDaysOld == 30

\* cleanup_old_login_attempts(days_old): the attempts file afterwards
cleanup_old_login_attempts(file, days_old, t) ==
    LET attempts_data == AttemptsOf(file)
        cutoff_date == t - days_old * MinutesPerDay
        users_to_remove ==
            {u \in DOMAIN attempts_data :
                LET last_attempt_str == Get(attempts_data[u], "last_attempt", <<>>)
                IN  last_attempt_str = <<>> \/ FromIsoFormat(last_attempt_str) < cutoff_date}
        kept == [u \in DOMAIN attempts_data \ users_to_remove |-> attempts_data[u]]
    IN  IF users_to_remove = {} THEN file ELSE SavedAttempts(kept, t)

\* change_password(username, old_password, new_password): the answer and the
\* two files afterwards
change_password(users_file, attempts_file, username, old_password, new_password, new_salt, t) ==
    LET call == authenticate(users_file, attempts_file, username, old_password, t)
        key == Str(sanitize_username(username))
        users == load_users_from_file(call.users_file)
        user_record == users[key]
        hashed == hash_password(new_password, new_salt)
        changed == (key :> (("salt" :> hashed.salt) @@ ("hash" :> hashed.hash)
                            @@ ("password_changed_at" :> IsoFormat(t))
                            @@ ("password_change_count" :>
                                   Get(user_record, "password_change_count", 0) + 1)
                            @@ user_record)) @@ users
        ok == /\ call.result
              /\ validate_password(new_password)
              /\ key \in DOMAIN users
              /\ ~verify_password(new_password, user_record["salt"], user_record["hash"])
              /\ SaveUsersOk(changed)
    IN  [result |-> ok, auth |-> call.result, locked |-> call.locked,
         users_file |-> IF ok THEN SavedUsers(changed, t) ELSE call.users_file,
         attempts_file |-> IF ok THEN record_login_attempt(call.attempts_file, key, TRUE, t)
                           ELSE call.attempts_file]

\* delete_user(username, password): the answer and the two files afterwards
delete_user(users_file, attempts_file, username, password, t) ==
    LET call == authenticate(users_file, attempts_file, username, password, t)
        key == Str(sanitize_username(username))
        users == load_users_from_file(call.users_file)
        left == [u \in DOMAIN users \ {key} |-> users[u]]
        ok == call.result /\ key \in DOMAIN users /\ SaveUsersOk(left)
        attempts_data == AttemptsOf(call.attempts_file)
    IN  [result |-> ok, auth |-> call.result, locked |-> call.locked,
         users_file |-> IF ok THEN SavedUsers(left, t) ELSE call.users_file,
         attempts_file |->
              IF ok /\ key \in DOMAIN attempts_data
              THEN SavedAttempts([u \in DOMAIN attempts_data \ {key} |-> attempts_data[u]], t)
              ELSE call.attempts_file]

\* A call that goes through authenticate_user first
AfterAuthentication(op, username, password, done) ==
    LET key == Str(sanitize_username(username))
    IN  /\ a_calls < MaxAuthCalls
        /\ a_calls' = a_calls + 1
        /\ USERS_FILE' = done.users_file
        /\ LOGIN_ATTEMPTS_FILE' = done.attempts_file
        /\ a_last' = AuthCall(op, key, password, done.result, done.locked, USERS_FILE')
        /\ streak' = StreakAfter(key, done.auth)
        /\ UNCHANGED <<clock, a_ticks, registered>>
        /\ AuthFrame

ChangePassword ==
    \E new_password \in {GoodPassword, <<"N", "e", "w", "p", "a", "s", "s", "7">>} :
        AfterAuthentication("change", <<"A", "l", "i">>, GoodPassword,
            change_password(USERS_FILE, LOGIN_ATTEMPTS_FILE, <<"A", "l", "i">>, GoodPassword,
                            new_password, "salt-2", clock))

DeleteUser ==
    AfterAuthentication("delete", <<"A", "l", "i">>, GoodPassword,
        delete_user(USERS_FILE, LOGIN_ATTEMPTS_FILE, <<"A", "l", "i">>, GoodPassword, clock))

\* A call that only tidies the attempts file
Tidied(op, file) ==
    /\ a_calls < MaxAuthCalls
    /\ a_calls' = a_calls + 1
    /\ LOGIN_ATTEMPTS_FILE' = file
    /\ a_last' = AuthCall(op, "", <<>>, file # LOGIN_ATTEMPTS_FILE, FALSE, USERS_FILE)
    /\ UNCHANGED <<USERS_FILE, clock, a_ticks, registered, streak>>
    /\ AuthFrame

CleanupOldLoginAttempts ==
    \E days_old \in {DefaultDaysOld, 0} :
        Tidied("cleanup", cleanup_old_login_attempts(LOGIN_ATTEMPTS_FILE, days_old, clock))

\* perform_maintenance(): of what it does, the cleanup touches the two files
PerformMaintenance ==
    Tidied("maintenance",
           cleanup_old_login_attempts(LOGIN_ATTEMPTS_FILE, DefaultDaysOld, clock))

RegisterAgain ==
    register_user(<<"A", "l", "i">>, GoodPassword, "salt-2", MaxAuthCalls)

LoginAgain ==
    \E password \in {GoodPassword, <<"w", "o", "r", "d", "3", "4">>} :
        authenticate_user(<<"A", "l", "i">>, password, MaxAuthCalls)

NextAccount ==
    \/ LoginAgain
    \/ RegisterAgain
    \/ ChangePassword
    \/ DeleteUser
    \/ CleanupOldLoginAttempts
    \/ PerformMaintenance
    \/ AuthTick

\* Every public operation on one account that may start locked out
SpecAccount == InitLogin /\ [][NextAccount]_vars

-----------------------------------------------------------------------------
(* Logins under names that sanitize to nothing *)

Unknown == <<"u", "n", "k", "n", "o", "w", "n">>

\* What is typed as a username: nothing, a blank, a character that is not
\* allowed, and two names accounts can have
TypedUsernames == { <<>>, <<" ">>, <<"!">>, Unknown, <<"A", "l", "i">> }

LoginTyped ==
    \E username \in TypedUsernames, password \in {GoodPassword, WrongPassword, <<>>} :
        authenticate_user(username, password, MaxAuthCalls)

RegisterUnknown ==
    register_user(Unknown, GoodPassword, "salt-1", MaxAuthCalls)

NextTyped ==
    \/ LoginTyped
    \/ RegisterUnknown
    \/ AuthTick

\* Logins with and without a username
SpecTyped == InitAuth /\ [][NextTyped]_vars

-----------------------------------------------------------------------------
(* Portfolio files: list_portfolios, save_portfolio, load_portfolio *)

MaxSaves == 2           \* save_portfolio calls in one run

FileFrame ==
    UNCHANGED <<YF_AVAILABLE, cacheVars, fetchVars, metricVars, betaVars, validateVars,
                recVars, authVars, chainVars, histVars, riskVars, raceVars, sharedVars,
                uiVars>>

\* str.startswith and str.endswith
StartsWith(s, prefix) ==
    Len(s) >= Len(prefix) /\ SubSeq(s, 1, Len(prefix)) = prefix
EndsWith(s, suffix) ==
    Len(s) >= Len(suffix) /\ SubSeq(s, Len(s) - Len(suffix) + 1, Len(s)) = suffix

DotCsv == <<".", "c", "s", "v">>
DotJson == <<".", "j", "s", "o", "n">>
Extension(fmt) == IF fmt = "csv" THEN DotCsv ELSE DotJson

\* datetime.now().strftime("%Y%m%d_%H%M%S") of the n-th second
Timestamp(n) ==
    <<"2", "0", "2", "5", "0", "1", "0", "1", "_", "0", "0", "0", "0", "0">>
        \o <<(<<"0", "1", "2", "3", "4", "5", "6", "7", "8", "9">>)[(n % 10) + 1]>>

\* f"{username}_current.{fmt}" and f"{username}_{timestamp}.{fmt}"
CurrentName(username, fmt) ==
    username \o <<"_", "c", "u", "r", "r", "e", "n", "t">> \o Extension(fmt)
SnapshotName(username, fmt, n) ==
    username \o <<"_">> \o Timestamp(n) \o Extension(fmt)

\* files.sort(key=getmtime, reverse=True)
RECURSIVE NewestFirst(_, _)
NewestFirst(names, dir) ==
    IF names = {} THEN <<>>
    ELSE LET newest == CHOOSE f \in names : \A g \in names : dir[g].mtime <= dir[f].mtime
         IN  <<newest>> \o NewestFirst(names \ {newest}, dir)

\* list_portfolios(username)
list_portfolios(dir, username) ==
    NewestFirst({fname \in DOMAIN dir :
                    /\ EndsWith(fname, DotCsv) \/ EndsWith(fname, DotJson)
                    /\ StartsWith(fname, username \o <<"_">>)}, dir)

\* save_portfolio(username, df, fmt=, overwrite=, keep_history=): the
\* directory afterwards
save_portfolio(dir, username, df, fmt, overwrite, keep_history, n) ==
    LET current == IF overwrite
                   THEN (CurrentName(username, fmt) :>
                            [by |-> username, mtime |-> 2 * n, df |-> df]) @@ dir
                   ELSE dir
    IN  IF keep_history
        THEN (SnapshotName(username, fmt, n) :>
                 [by |-> username, mtime |-> 2 * n + 1, df |-> df]) @@ current
        ELSE current

\* load_portfolio(username, filename): the file it reads, <<>> for None
load_portfolio(dir, username, filename) ==
    LET files == list_portfolios(dir, username)
        target == IF filename # <<>> THEN filename ELSE files[1]
    IN  IF files = <<>> THEN <<>>
        ELSE IF target \notin DOMAIN dir THEN <<>>
        ELSE <<[name |-> target, by |-> dir[target].by, df |-> dir[target].df]>>

\* The users whose portfolios are kept: names validate_username accepts
PortfolioUsers ==
    {u \in { <<"a", "l", "i">>, <<"a", "l", "i", "_", "b">>, <<"b", "o", "b">> } :
        validate_username(u) /\ sanitize_username(u) = u}

SavePortfolio ==
    \E username \in PortfolioUsers, fmt \in {"csv", "json"}, overwrite \in BOOLEAN,
       keep_history \in BOOLEAN :
        /\ p_now < MaxSaves
        /\ p_now' = p_now + 1
        /\ p_dir' = save_portfolio(p_dir, username, [owner |-> username, saved |-> p_now],
                                   fmt, overwrite, keep_history, p_now)
        /\ p_last' = [op |-> "save", user |-> username, files |-> <<>>, loaded |-> <<>>]
        /\ FileFrame

ListPortfolios ==
    \E username \in PortfolioUsers :
        /\ p_last' = [op |-> "list", user |-> username,
                      files |-> list_portfolios(p_dir, username), loaded |-> <<>>]
        /\ UNCHANGED <<p_dir, p_now>>
        /\ FileFrame

\* load_portfolio(username), or with one of the names list_portfolios gave
LoadPortfolio ==
    \E username \in PortfolioUsers :
        \E filename \in {<<>>} \cup Range(list_portfolios(p_dir, username)) :
            /\ p_last' = [op |-> "load", user |-> username, files |-> <<>>,
                          loaded |-> load_portfolio(p_dir, username, filename)]
            /\ UNCHANGED <<p_dir, p_now>>
            /\ FileFrame

InitFiles ==
    /\ YF_AVAILABLE = TRUE
    /\ CacheIdle /\ FetchIdle /\ MetricsIdle /\ BetaIdle /\ RestIdle

NextFiles ==
    \/ SavePortfolio
    \/ ListPortfolios
    \/ LoadPortfolio

\* The portfolio directory of three users
SpecFiles == InitFiles /\ [][NextFiles]_vars

-----------------------------------------------------------------------------
(* get_cached_prices and clear_all_caches, statement by statement, in
   sessions that share the caches *)

MaxGets == 3            \* get_cached_prices calls begun in one run
MaxClears == 1          \* clear_all_caches calls begun in one run

SharedFrame ==
    /\ UNCHANGED <<YF_AVAILABLE, fetchVars, metricVars, betaVars, validateVars, recVars,
                   authVars, chainVars, histVars, riskVars, raceVars, fileVars, uiVars>>
    /\ UNCHANGED <<now, ticks, calls, last, prev, requested, cleared>>

SharedRequests == { << <<"a">> >>, << <<"b">>, <<" ", "A">> >> }

\* tickers_list, cache_key and now are computed; the early return
BeginGet(s) ==
    \E tickers \in SharedRequests, sc \in Scenarios :
        LET tickers_list == TickersList(tickers)
            early == tickers_list = <<>> \/ ~YF_AVAILABLE
        IN  /\ g_pc[s] = "idle" /\ g_calls < MaxGets
            /\ g_calls' = g_calls + 1
            /\ g_loc' = [g_loc EXCEPT ![s] =
                            [tickers_list |-> tickers_list, cache_key |-> CacheKey(tickers_list),
                             now |-> now, sc |-> sc, prices |-> EmptyMap,
                             clearedSince |-> FALSE]]
            /\ g_out' = [g_out EXCEPT ![s] =
                            IF early THEN [raised |-> FALSE, from |-> "early",
                                           ret |-> [t \in Range(tickers_list) |-> NaN]]
                            ELSE <<>>]
            /\ g_pc' = [g_pc EXCEPT ![s] = IF early THEN "idle" ELSE "member"]
            /\ UNCHANGED <<PRICE_CACHE, CACHE_TIMESTAMPS, HIST_PRICES_CACHE, BENCHMARK_CACHE,
                           g_clear, g_clears>>
            /\ SharedFrame

\* if cache_key in PRICE_CACHE
CheckMember(s) ==
    /\ g_pc[s] = "member"
    /\ g_pc' = [g_pc EXCEPT ![s] =
                   IF g_loc[s].cache_key \in DOMAIN PRICE_CACHE THEN "age" ELSE "fetch"]
    /\ g_loc' = [g_loc EXCEPT ![s].clearedSince = FALSE]
    /\ UNCHANGED <<PRICE_CACHE, CACHE_TIMESTAMPS, HIST_PRICES_CACHE, BENCHMARK_CACHE,
                   g_out, g_clear, g_calls, g_clears>>
    /\ SharedFrame

\* cache_age = now - CACHE_TIMESTAMPS.get(cache_key, 0.0), and its test
CheckAge(s) ==
    LET cache_age == g_loc[s].now - Get(CACHE_TIMESTAMPS, g_loc[s].cache_key, 0)
    IN  /\ g_pc[s] = "age"
        /\ g_pc' = [g_pc EXCEPT ![s] =
                       IF CacheValid(cache_age, CACHE_DURATION_MINUTES) THEN "read"
                       ELSE "fetch"]
        /\ UNCHANGED <<PRICE_CACHE, CACHE_TIMESTAMPS, HIST_PRICES_CACHE, BENCHMARK_CACHE,
                       g_loc, g_out, g_clear, g_calls, g_clears>>
        /\ SharedFrame

\* return PRICE_CACHE[cache_key]: the entry, or KeyError when it is gone
ReadEntry(s) ==
    /\ g_pc[s] = "read"
    /\ g_out' = [g_out EXCEPT ![s] =
                    IF g_loc[s].cache_key \in DOMAIN PRICE_CACHE
                    THEN [raised |-> FALSE, from |-> "cache",
                          ret |-> PRICE_CACHE[g_loc[s].cache_key]]
                    ELSE [raised |-> TRUE, from |-> "cache", ret |-> EmptyMap]]
    /\ g_pc' = [g_pc EXCEPT ![s] = "idle"]
    /\ UNCHANGED <<PRICE_CACHE, CACHE_TIMESTAMPS, HIST_PRICES_CACHE, BENCHMARK_CACHE,
                   g_loc, g_clear, g_calls, g_clears>>
    /\ SharedFrame

\* prices = fetch_current_prices_robust(tickers_list)
FetchFresh(s) ==
    /\ g_pc[s] = "fetch"
    /\ g_loc' = [g_loc EXCEPT ![s].prices =
                    fetch_current_prices_robust(g_loc[s].tickers_list, g_loc[s].sc.mkt,
                                                g_loc[s].sc.b)]
    /\ g_pc' = [g_pc EXCEPT ![s] = "store"]
    /\ UNCHANGED <<PRICE_CACHE, CACHE_TIMESTAMPS, HIST_PRICES_CACHE, BENCHMARK_CACHE,
                   g_out, g_clear, g_calls, g_clears>>
    /\ SharedFrame

\* PRICE_CACHE[cache_key] = prices
StoreEntry(s) ==
    /\ g_pc[s] = "store"
    /\ PRICE_CACHE' = StorePrices(PRICE_CACHE, g_loc[s].cache_key, g_loc[s].prices)
    /\ g_pc' = [g_pc EXCEPT ![s] = "stamp"]
    /\ UNCHANGED <<CACHE_TIMESTAMPS, HIST_PRICES_CACHE, BENCHMARK_CACHE,
                   g_loc, g_out, g_clear, g_calls, g_clears>>
    /\ SharedFrame

\* CACHE_TIMESTAMPS[cache_key] = now; return prices
StampEntry(s) ==
    /\ g_pc[s] = "stamp"
    /\ CACHE_TIMESTAMPS' = StoreTimestamp(CACHE_TIMESTAMPS, g_loc[s].cache_key, g_loc[s].now)
    /\ g_out' = [g_out EXCEPT ![s] =
                    [raised |-> FALSE, from |-> "fetch", ret |-> g_loc[s].prices]]
    /\ g_pc' = [g_pc EXCEPT ![s] = "idle"]
    /\ UNCHANGED <<PRICE_CACHE, HIST_PRICES_CACHE, BENCHMARK_CACHE,
                   g_loc, g_clear, g_calls, g_clears>>
    /\ SharedFrame

\* PRICE_CACHE.clear(), in a third session
ClearPrices ==
    /\ g_clear = "idle" /\ g_clears < MaxClears
    /\ g_clears' = g_clears + 1
    /\ PRICE_CACHE' = ClearedCaches.prices
    /\ g_clear' = "stamps"
    /\ g_loc' = [s \in Sessions |->
                    IF g_pc[s] \in {"age", "read"}
                    THEN [g_loc[s] EXCEPT !.clearedSince = TRUE] ELSE g_loc[s]]
    /\ UNCHANGED <<CACHE_TIMESTAMPS, HIST_PRICES_CACHE, BENCHMARK_CACHE, g_pc, g_out, g_calls>>
    /\ SharedFrame

\* CACHE_TIMESTAMPS.clear()
ClearStamps ==
    /\ g_clear = "stamps"
    /\ CACHE_TIMESTAMPS' = ClearedCaches.stamps
    /\ g_clear' = "hist"
    /\ UNCHANGED <<PRICE_CACHE, HIST_PRICES_CACHE, BENCHMARK_CACHE,
                   g_pc, g_loc, g_out, g_calls, g_clears>>
    /\ SharedFrame

\* HIST_PRICES_CACHE.clear()
ClearHist ==
    /\ g_clear = "hist"
    /\ HIST_PRICES_CACHE' = ClearedCaches.hist
    /\ g_clear' = "bench"
    /\ UNCHANGED <<PRICE_CACHE, CACHE_TIMESTAMPS, BENCHMARK_CACHE,
                   g_pc, g_loc, g_out, g_calls, g_clears>>
    /\ SharedFrame

\* BENCHMARK_CACHE.clear()
ClearBench ==
    /\ g_clear = "bench"
    /\ BENCHMARK_CACHE' = ClearedCaches.bench
    /\ g_clear' = "idle"
    /\ UNCHANGED <<PRICE_CACHE, CACHE_TIMESTAMPS, HIST_PRICES_CACHE,
                   g_pc, g_loc, g_out, g_calls, g_clears>>
    /\ SharedFrame

InitShared ==
    /\ YF_AVAILABLE = TRUE
    /\ CacheIdle /\ FetchIdle /\ MetricsIdle /\ BetaIdle /\ RestIdle

NextShared ==
    \/ \E s \in Sessions : BeginGet(s)
    \/ \E s \in Sessions : CheckMember(s)
    \/ \E s \in Sessions : CheckAge(s)
    \/ \E s \in Sessions : ReadEntry(s)
    \/ \E s \in Sessions : FetchFresh(s)
    \/ \E s \in Sessions : StoreEntry(s)
    \/ \E s \in Sessions : StampEntry(s)
    \/ ClearPrices
    \/ ClearStamps
    \/ ClearHist
    \/ ClearBench

\* Two sessions reading prices through the cache while a third clears it
SpecShared == InitShared /\ [][NextShared]_vars

-----------------------------------------------------------------------------
(* app.py: what a browser session does to st.session_state *)

MaxClicks == 5          \* interactions in one run

UiFrame ==
    /\ UNCHANGED <<YF_AVAILABLE, fetchVars, metricVars, betaVars, validateVars, recVars,
                   chainVars, histVars, riskVars, raceVars, fileVars, sharedVars>>
    /\ UNCHANGED <<clock, a_calls, a_ticks, a_last, registered, streak>>
    /\ UNCHANGED <<now, ticks, calls, last, prev, requested, cleared>>

CachesKept == UNCHANGED <<PRICE_CACHE, CACHE_TIMESTAMPS, HIST_PRICES_CACHE, BENCHMARK_CACHE>>
FilesKept == UNCHANGED <<USERS_FILE, LOGIN_ATTEMPTS_FILE>>

Click == u_clicks < MaxClicks /\ u_clicks' = u_clicks + 1

\* safe_load_portfolio(username): the session state afterwards
safe_load_portfolio(state, username) ==
    IF load_portfolio(p_dir, username, <<>>) = <<>> THEN state
    ELSE ("portfolio_df" :> "loaded") @@ state

\* handle_login_submission_enhanced(username_input, password_input, show_demo),
\* from the form main() shows to a session that is not authenticated
handle_login_submission_enhanced(username_input, password_input, show_demo) ==
    LET username == Strip(username_input)
        call == authenticate(USERS_FILE, LOGIN_ATTEMPTS_FILE, username, password_input, clock)
        signed == ("authenticated" :> TRUE) @@ ("username" :> username)
                  @@ ("first_login" :> TRUE) @@ ("show_welcome" :> TRUE) @@ session_state
    IN  /\ Click /\ ~u_error /\ ~session_state["authenticated"]
        /\ IF username = <<>> \/ password_input = <<>>
           THEN UNCHANGED <<session_state, u_verified>> /\ FilesKept
           ELSE /\ USERS_FILE' = call.users_file
                /\ LOGIN_ATTEMPTS_FILE' = call.attempts_file
                /\ u_verified' = (u_verified \/ call.result)
                /\ session_state' =
                      IF ~call.result THEN session_state
                      ELSE IF show_demo
                      THEN ("portfolio_df" :> "demo") @@ ("show_welcome" :> FALSE) @@ signed
                      ELSE safe_load_portfolio(signed, username)
        /\ UNCHANGED <<u_error, u_reset>>
        /\ CachesKept /\ UiFrame

SubmitLogin ==
    \E username_input \in { <<"A", "l", "i">>, <<" ">> },
       password_input \in {GoodPassword, WrongPassword}, show_demo \in BOOLEAN :
        handle_login_submission_enhanced(username_input, password_input, show_demo)

\* handle_logout(), from the "Sign Out" page of an authenticated session
handle_logout ==
    /\ Click /\ ~u_error /\ session_state["authenticated"]
    /\ session_state' = initialize_session_state(EmptyMap)
    /\ u_verified' = FALSE /\ u_reset' = FALSE
    /\ UNCHANGED u_error
    /\ FilesKept /\ CachesKept /\ UiFrame

\* main() raises: handle_application_error_enhanced shows the error page
\* with its four recovery buttons
MainRaises ==
    /\ Click /\ ~u_error
    /\ u_error' = TRUE
    /\ UNCHANGED <<session_state, u_verified, u_reset>>
    /\ FilesKept /\ CachesKept /\ UiFrame

\* "Refresh Page"
RefreshPage ==
    /\ Click /\ u_error
    /\ u_error' = FALSE
    /\ UNCHANGED <<session_state, u_verified, u_reset>>
    /\ FilesKept /\ CachesKept /\ UiFrame

\* "Go to Dashboard"
GoToDashboard ==
    /\ Click /\ u_error
    /\ session_state' = ("show_welcome" :> FALSE) @@ session_state
    /\ u_error' = FALSE
    /\ UNCHANGED <<u_verified, u_reset>>
    /\ FilesKept /\ CachesKept /\ UiFrame

\* "Clear Cache"
ClearCache ==
    /\ Click /\ u_error
    /\ PRICE_CACHE' = ClearedCaches.prices
    /\ CACHE_TIMESTAMPS' = ClearedCaches.stamps
    /\ HIST_PRICES_CACHE' = ClearedCaches.hist
    /\ BENCHMARK_CACHE' = ClearedCaches.bench
    /\ u_error' = FALSE
    /\ UNCHANGED <<session_state, u_verified, u_reset>>
    /\ FilesKept /\ UiFrame

\* "Reset Session"
ResetSession ==
    LET kept == [k \in DOMAIN session_state \cap {"authenticated", "username"} |->
                    session_state[k]]
    IN  /\ Click /\ u_error
        /\ session_state' = ("authenticated" :> TRUE) @@ initialize_session_state(kept)
        /\ u_reset' = TRUE
        /\ u_error' = FALSE
        /\ UNCHANGED u_verified
        /\ FilesKept /\ CachesKept /\ UiFrame

InitUi ==
    /\ YF_AVAILABLE = TRUE
    /\ CacheIdle /\ FetchIdle /\ MetricsIdle /\ BetaIdle /\ ValidateIdle /\ RecIdle
    /\ ChainIdle /\ HistIdle /\ MoreIdle
    /\ USERS_FILE = LegacyUsers /\ LOGIN_ATTEMPTS_FILE = NoFile /\ clock = 0
    /\ a_calls = 0 /\ a_ticks = 0 /\ a_last = NoAuthCall
    /\ registered = EmptyMap /\ streak = EmptyMap

NextUi ==
    \/ SubmitLogin
    \/ handle_logout
    \/ MainRaises
    \/ RefreshPage
    \/ GoToDashboard
    \/ ClearCache
    \/ ResetSession

\* One browser session: sign in, sign out, and the error page
SpecUi == InitUi /\ [][NextUi]_vars

-----------------------------------------------------------------------------
(* authenticate_user with a wrong password, run by several sessions at once *)

MaxRaceCalls == 7       \* calls the sessions begin in one run

RaceFrame ==
    /\ UNCHANGED <<YF_AVAILABLE, cacheVars, fetchVars, metricVars, betaVars, validateVars,
                   recVars, chainVars, histVars, riskVars, fileVars, sharedVars, uiVars>>
    /\ UNCHANGED <<USERS_FILE, clock, a_calls, a_ticks, a_last, registered, streak>>

\* open(LOGIN_ATTEMPTS_FILE, 'w') before json.dump has written: a file that
\* load_login_attempts reads as {}
Truncated == [exists |-> TRUE, data |-> EmptyMap]

\* is_account_locked(username_clean), reading the file as it is now
CheckLock(s) ==
    LET lock == is_account_locked(LOGIN_ATTEMPTS_FILE, "ali", clock)
    IN  /\ s_pc[s] = "idle" /\ s_calls < MaxRaceCalls
        /\ s_calls' = s_calls + 1
        /\ s_pc' = [s_pc EXCEPT ![s] = IF lock.locked THEN "idle" ELSE "verify"]
        /\ s_overlap' = (s_overlap \/ (~lock.locked /\ \E o \in Sessions \ {s} : s_pc[o] # "idle"))
        /\ LOGIN_ATTEMPTS_FILE' = lock.file
        /\ UNCHANGED <<s_read, s_tried>>
        /\ RaceFrame

\* The password is verified and found wrong; record_login_attempt starts
\* with load_login_attempts()
LoadAttempts(s) ==
    LET users == load_users_from_file(USERS_FILE)
    IN  /\ s_pc[s] = "verify"
        /\ ~verify_password(WrongPassword, users["ali"]["salt"], users["ali"]["hash"])
        /\ s_tried' = s_tried + 1
        /\ s_read' = [s_read EXCEPT ![s] = LOGIN_ATTEMPTS_FILE]
        /\ s_pc' = [s_pc EXCEPT ![s] = "open"]
        /\ UNCHANGED <<LOGIN_ATTEMPTS_FILE, s_calls, s_overlap>>
        /\ RaceFrame

\* save_login_attempts opens the file for writing
OpenAttempts(s) ==
    /\ s_pc[s] = "open"
    /\ LOGIN_ATTEMPTS_FILE' = Truncated
    /\ s_pc' = [s_pc EXCEPT ![s] = "dump"]
    /\ UNCHANGED <<s_read, s_tried, s_calls, s_overlap>>
    /\ RaceFrame

\* json.dump writes what record_login_attempt made of the data it loaded
DumpAttempts(s) ==
    /\ s_pc[s] = "dump"
    /\ LOGIN_ATTEMPTS_FILE' = record_login_attempt(s_read[s], "ali", FALSE, clock)
    /\ s_pc' = [s_pc EXCEPT ![s] = "idle"]
    /\ s_read' = [s_read EXCEPT ![s] = NoFile]
    /\ UNCHANGED <<s_tried, s_calls, s_overlap>>
    /\ RaceFrame

InitRace ==
    /\ YF_AVAILABLE = TRUE
    /\ CacheIdle /\ FetchIdle /\ MetricsIdle /\ BetaIdle /\ ValidateIdle /\ RecIdle
    /\ ChainIdle /\ HistIdle /\ MoreIdle
    /\ USERS_FILE = LegacyUsers /\ LOGIN_ATTEMPTS_FILE = NoFile /\ clock = 0
    /\ a_calls = 0 /\ a_ticks = 0 /\ a_last = NoAuthCall
    /\ registered = EmptyMap /\ streak = EmptyMap

NextRace ==
    \/ \E s \in Sessions : CheckLock(s)
    \/ \E s \in Sessions : LoadAttempts(s)
    \/ \E s \in Sessions : OpenAttempts(s)
    \/ \E s \in Sessions : DumpAttempts(s)

\* Failed logins to one account from sessions that run at the same time
SpecRace == InitRace /\ [][NextRace]_vars

-----------------------------------------------------------------------------
(* One call of _fetch_single_price_with_fallbacks *)

ChainFrame ==
    UNCHANGED <<YF_AVAILABLE, cacheVars, fetchVars, metricVars, betaVars, validateVars,
                recVars, authVars, histVars, moreVars>>

\* The call: the methods it invokes, in order, and what it returns
FetchSinglePrice ==
    /\ c_pc = "input"
    /\ c_pc' = "returned"
    /\ c_calls' = MethodCalls(c_outs, 1)
    /\ c_price' = fetch_single_price_with_fallbacks(c_outs)
    /\ UNCHANGED c_outs
    /\ ChainFrame

\* c_outs: what each of the four methods would do for the ticker
InitChain ==
    /\ YF_AVAILABLE = TRUE
    /\ CacheIdle /\ FetchIdle /\ MetricsIdle /\ BetaIdle
    /\ ValidateIdle /\ RecIdle /\ AuthIdle /\ HistIdle /\ MoreIdle
    /\ c_pc = "input" /\ c_outs \in [Methods -> Outcome]
    /\ c_calls = <<>> /\ c_price = NaN

NextChain == FetchSinglePrice

SpecChain == InitChain /\ [][NextChain]_vars

-----------------------------------------------------------------------------
(* Portfolio risk figures: calculate_portfolio_sharpe and                   *)
(* calculate_value_at_risk, and the Sharpe cell of compute_enhanced_metrics *)
(* A metrics table is its set of columns and its rows [Ticker, Weight,      *)
(* Value]; hist[t] is the series fetch_historical_series returns for t.     *)
(* The Sharpe ratio is carried in tenths.                                    *)

UsableAbove == 20   \* len(prices) > 20
MinRows == 10       \* len(...) < 10

\* not prices.empty and len(prices) > 20
UsableHistory(prices) == prices # <<>> /\ Len(prices) > UsableAbove

\* metrics_df.dropna(subset=cols)
DropNa(rows, cols) ==
    LET Full(row) == /\ "Weight %" \in cols => ~IsNaN(row.Weight)
                     /\ "Total Value" \in cols => ~IsNaN(row.Value)
    IN  SelectSeq(rows, Full)

\* The keys of price_data after the loop over the tickers
PriceData(valid_assets, hist) ==
    {Upper(valid_assets[i].Ticker) : i \in 1..Len(valid_assets)}
    \cap {t \in DOMAIN hist : UsableHistory(hist[t])}

RECURSIVE Ascending(_)
Ascending(S) ==
    IF S = {} THEN <<>>
    ELSE LET m == CHOOSE x \in S : \A y \in S : x <= y
         IN  <<m>> \o Ascending(S \ {m})

DatesOf(prices) == {prices[i].date : i \in 1..Len(prices)}
PriceAt(prices, d) == prices[CHOOSE i \in 1..Len(prices) : prices[i].date = d].price

\* pd.DataFrame(price_data).dropna(): the dates every series has, in order
AlignedPrices(price_data, hist) ==
    LET all == UNION {DatesOf(hist[t]) : t \in price_data}
        days == Ascending({d \in all : \A t \in price_data : d \in DatesOf(hist[t])})
    IN  [i \in 1..Len(days) |->
            [date |-> days[i], price |-> [t \in price_data |-> PriceAt(hist[t], days[i])]]]

\* price_df.pct_change().dropna().replace([np.inf, -np.inf], np.nan).dropna()
FrameReturns(price_df) ==
    LET Pct(before, cur) == IF before = 0 THEN (IF cur = 0 THEN NaN ELSE Inf)
                            ELSE Rat(cur - before, before)
        returns == [i \in 1..(Len(price_df) - 1) |->
                      [date |-> price_df[i + 1].date,
                       r |-> [t \in DOMAIN price_df[i].price |->
                                Pct(price_df[i].price[t], price_df[i + 1].price[t])]]]
        AllFinite(row) == \A t \in DOMAIN row.r : row.r[t].k = "rat"
    IN  SelectSeq(returns, AllFinite)

\* weights[valid_assets['Ticker'].isin(available_tickers)]
AlignedWeights(valid_assets, available_tickers) ==
    LET Listed(row) == row.Ticker \in available_tickers
        rows == SelectSeq(valid_assets, Listed)
    IN  [i \in 1..Len(rows) |-> rows[i].Weight.v]

RECURSIVE SumSeq(_)
SumSeq(xs) == IF xs = <<>> THEN 0 ELSE Head(xs) + SumSeq(Tail(xs))

Returned(value, where) == [ret |-> value, at |-> where]

\* pd.isna(sharpe_annual) or abs(sharpe_annual) > 10
PortfolioClamp(sharpe_annual) == IsNaN(sharpe_annual) \/ Abs(sharpe_annual.v) > 100

\* returns_df.empty or len(returns_df) < 10
VarTooFew(price_df, returns_df) == returns_df = <<>> \/ Len(returns_df) < MinRows

\* calculate_portfolio_sharpe(metrics_df): what it returns and at which
\* return; sharpe_annual is what the float arithmetic on the portfolio
\* returns gives, NaN standing for a deviation of 0
calculate_portfolio_sharpe(metrics_df, hist, sharpe_annual) ==
    IF metrics_df.rows = <<>> \/ "Weight %" \notin metrics_df.cols
    THEN Returned(NaN, "table")
    ELSE
    LET valid_assets == DropNa(metrics_df.rows, {"Weight %"})
        price_data == PriceData(valid_assets, hist)
        price_df == AlignedPrices(price_data, hist)
        returns_df == FrameReturns(price_df)
        aligned_weights == AlignedWeights(valid_assets, price_data)
    IN  IF valid_assets = <<>> THEN Returned(NaN, "assets")
        ELSE IF Cardinality(price_data) < 2 THEN Returned(NaN, "tickers")
        ELSE IF price_df = <<>> \/ Len(price_df) < MinRows THEN Returned(NaN, "rows")
        ELSE IF returns_df = <<>> THEN Returned(NaN, "returns")
        ELSE IF SumSeq(aligned_weights) = 0 THEN Returned(NaN, "weights")
        ELSE IF Len(aligned_weights) # Cardinality(price_data) THEN Returned(NaN, "error")
        ELSE IF Len(returns_df) < 2 \/ IsNaN(sharpe_annual) THEN Returned(NaN, "deviation")
        ELSE IF PortfolioClamp(sharpe_annual) THEN Returned(NaN, "clamp")
        ELSE Returned(sharpe_annual, "result")

\* calculate_value_at_risk(metrics_df): what it returns and at which return;
\* var_return is the percentile of the portfolio returns, in percent
calculate_value_at_risk(metrics_df, hist, var_return) ==
    IF metrics_df.rows = <<>> \/ ~({"Weight %", "Ticker", "Total Value"} \subseteq metrics_df.cols)
    THEN Returned(NaN, "table")
    ELSE
    LET valid_assets == DropNa(metrics_df.rows, {"Weight %", "Total Value"})
        total_portfolio_value == SumSeq([i \in 1..Len(valid_assets) |-> valid_assets[i].Value.v])
        price_data == PriceData(valid_assets, hist)
        price_df == AlignedPrices(price_data, hist)
        returns_df == FrameReturns(price_df)
        aligned_weights == AlignedWeights(valid_assets, price_data)
    IN  IF valid_assets = <<>> THEN Returned(NaN, "assets")
        ELSE IF total_portfolio_value <= 0 THEN Returned(NaN, "value")
        ELSE IF Cardinality(price_data) < 2 THEN Returned(NaN, "tickers")
        ELSE IF VarTooFew(price_df, returns_df) THEN Returned(NaN, "returns")
        ELSE IF SumSeq(aligned_weights) = 0 THEN Returned(NaN, "weights")
        ELSE IF Len(aligned_weights) # Cardinality(price_data) THEN Returned(NaN, "error")
        ELSE Returned(Num(Abs(var_return * total_portfolio_value)), "result")

\* The Sharpe cell of a row of compute_enhanced_metrics for the ratio sharpe:
\* if not pd.isna(sharpe) and abs(sharpe) < 10
AssetSharpeCell(sharpe) ==
    IF ~IsNaN(sharpe) /\ Abs(sharpe.v) < 100 THEN sharpe ELSE NaN

RiskFrame ==
    UNCHANGED <<YF_AVAILABLE, cacheVars, fetchVars, metricVars, betaVars, validateVars,
                recVars, authVars, chainVars, histVars, lateVars>>

CalculatePortfolioSharpe ==
    /\ k_in # <<>> /\ k_sharpe = <<>>
    /\ k_sharpe' = calculate_portfolio_sharpe(k_in.metrics_df, k_in.hist, k_in.sharpe)
    /\ UNCHANGED <<k_in, k_var, k_asset>>
    /\ RiskFrame

CalculateValueAtRisk ==
    /\ k_in # <<>> /\ k_var = <<>>
    /\ k_var' = calculate_value_at_risk(k_in.metrics_df, k_in.hist, k_in.var_return)
    /\ UNCHANGED <<k_in, k_sharpe, k_asset>>
    /\ RiskFrame

AssetSharpe ==
    /\ k_in # <<>> /\ k_asset = <<>>
    /\ k_asset' = <<AssetSharpeCell(k_in.sharpe)>>
    /\ UNCHANGED <<k_in, k_sharpe, k_var>>
    /\ RiskFrame

\* The tables the figures are exercised with: two or three holdings with
\* their weights and values, a holding without a price, no holdings
RiskRow(t, w, v) == [Ticker |-> t, Weight |-> w, Value |-> v]
RiskColumns == {"Ticker", "Weight %", "Total Value"}
RiskTables ==
    {[cols |-> RiskColumns, rows |-> rows] :
        rows \in { <<>>,
                   <<RiskRow(<<"A">>, Num(50), Num(5)), RiskRow(<<"B">>, Num(50), Num(5))>>,
                   <<RiskRow(<<"A">>, Num(40), Num(4)), RiskRow(<<"B">>, Num(40), Num(4)),
                     RiskRow(<<"C">>, Num(20), Num(2))>>,
                   <<RiskRow(<<"A">>, Num(50), Num(5)), RiskRow(<<"B">>, Num(50), Num(5)),
                     RiskRow(<<"C">>, NaN, NaN)>> }}

\* The histories: "A" has none, one day too few, or just enough days from
\* day 1; "B" has the same days as "A" or as many days starting later, so
\* that nine, ten or eleven days are common; a series can hold a price of 0
FirstDays(shape, n) == PriceSeries(shape, 1, n, 0)
Overlapping(shape, common) ==
    PriceSeries(shape, UsableAbove + 2 - common, 2 * UsableAbove + 2 - common, 0)
RiskHistories ==
    {[t \in {<<"A">>, <<"B">>, <<"C">>} |->
        CASE t = <<"A">> -> a [] t = <<"B">> -> b [] OTHER -> c] :
        a \in {<<>>, FirstDays("alt", UsableAbove), FirstDays("alt", UsableAbove + 1),
               FirstDays("late", UsableAbove + 1)},
        b \in {<<>>, FirstDays("cycle", UsableAbove + 1)}
              \cup {Overlapping(sh, n) : sh \in {"cycle", "late"},
                                         n \in (MinRows - 1)..(MinRows + 1)},
        c \in {<<>>, FirstDays("cycle", 2 * UsableAbove)}}

SharpeValues == {NaN, Num(-101), Num(-100), Num(-99), Num(15), Num(99), Num(100), Num(101)}
VarReturns == {-3, 0}

InitRisk ==
    /\ YF_AVAILABLE = TRUE
    /\ CacheIdle /\ FetchIdle /\ MetricsIdle /\ BetaIdle
    /\ ValidateIdle /\ RecIdle /\ AuthIdle /\ ChainIdle /\ HistIdle /\ LateIdle
    /\ k_in \in [metrics_df : RiskTables, hist : RiskHistories, sharpe : SharpeValues,
                 var_return : VarReturns]
    /\ k_sharpe = <<>> /\ k_var = <<>> /\ k_asset = <<>>

NextRisk ==
    \/ CalculatePortfolioSharpe
    \/ CalculateValueAtRisk
    \/ AssetSharpe

\* The risk figures alone
SpecRisk == InitRisk /\ [][NextRisk]_vars

-----------------------------------------------------------------------------
(* Claims about the price cache *)

\* The last operation was a get_cached_prices call that reached the cache
\* lookup (a non-empty ticker list, yfinance available)
Looked == last.op = "get" /\ last.lookup

\* C1, as stated: two get_cached_prices calls for the same tickers, the
\* second less than the TTL after the first with no clear in between, return
\* the same map and the second performs no fetch.
C1_AsStated ==
    (Looked /\ last.hadPrev /\ last.at - last.prevAt < last.ttl)
        => (last.result = last.prevResult /\ ~last.fetched)

\* C1, amended: two get_cached_prices calls for the same tickers (in any
\* order), the second less than the TTL after the fetch that filled the entry
\* the first call returned, with no clear in between, return the same map and
\* the second performs no fetch.
C1_SameWithinTtlOfFetch ==
    (Looked /\ last.hadPrev /\ last.at - last.prevFetchedAt < last.ttl)
        => (last.result = last.prevResult /\ ~last.fetched)

\* A second call, later than the first and within the TTL of the fetch, that
\* returned the cached map with a real price in it
C1_Witness ==
    /\ Looked /\ last.hadPrev /\ last.at > last.prevAt
    /\ last.at - last.prevFetchedAt < last.ttl
    /\ ~last.fetched /\ last.result = last.prevResult
    /\ \E t \in DOMAIN last.result : ~IsNaN(last.result[t])

\* C2: an entry is served if and only if now minus its timestamp is strictly
\* less than the TTL; otherwise the full ticker list is fetched afresh and
\* the entry's map and timestamp are replaced by the fetched map and now.
C2_ServedIffYoungerThanTtl ==
    (Looked /\ last.had) =>
        /\ last.age < last.ttl =>
              /\ ~last.fetched
              /\ last.result = last.old
              /\ PRICE_CACHE[last.key] = last.old
              /\ CACHE_TIMESTAMPS[last.key] = last.at - last.age
        /\ last.age >= last.ttl =>
              /\ last.fetched
              /\ last.fetchArg = last.tickers
              /\ last.result = last.fetchRet
              /\ PRICE_CACHE[last.key] = last.fetchRet
              /\ CACHE_TIMESTAMPS[last.key] = last.at

\* An entry exactly as old as the TTL was replaced by a different map
C2_Witness ==
    /\ Looked /\ last.had /\ last.age = last.ttl /\ last.fetched
    /\ last.old # last.fetchRet
    /\ PRICE_CACHE[last.key] = last.fetchRet

\* C3: the cache key depends only on the set of requested tickers: a call
\* whose tickers are, as a set after trimming and uppercasing, those of an
\* entry still within the TTL performs no fetch.
C3_SameSetSameEntry ==
    (Looked /\ last.sameSetValid) => ~last.fetched

-----------------------------------------------------------------------------
(* Claims about clear_all_caches *)

AllCachesEmpty ==
    /\ DOMAIN PRICE_CACHE = {} /\ DOMAIN CACHE_TIMESTAMPS = {}
    /\ DOMAIN HIST_PRICES_CACHE = {} /\ DOMAIN BENCHMARK_CACHE = {}

\* The last operation was the first get_cached_prices call for its tickers
\* since a clear
FirstSinceClear == last.op = "get" /\ cleared.done /\ last.fresh

\* C4, as stated: clear_all_caches empties every cache, and the next
\* get_cached_prices call for any ticker set performs a live fetch.
C4_AsStated ==
    /\ last.op = "clear" => AllCachesEmpty
    /\ FirstSinceClear => last.fetched

\* C4, amended: clear_all_caches empties every cache, and the next
\* get_cached_prices call for any ticker list that is not empty after
\* normalisation, made while yfinance is available, performs a live fetch
\* and returns what it fetched.
C4_ClearThenLiveFetch ==
    /\ last.op = "clear" => AllCachesEmpty
    /\ (FirstSinceClear /\ YF_AVAILABLE /\ last.tickers # <<>>)
           => (last.fetched /\ last.result = last.fetchRet)

\* A clear dropped entries of all caches, and the call made in the same
\* instant for tickers it dropped went to the network
C4_Witness ==
    /\ FirstSinceClear /\ last.fetched
    /\ last.key \in cleared.keys /\ cleared.hist /\ cleared.bench
    /\ last.at = cleared.at

-----------------------------------------------------------------------------
(* Claims about the price fetcher *)

\* C5: fetch_current_prices_robust never raises and returns a map in which
\* each requested normalized ticker is mapped either to a price greater than
\* 0 produced by some strategy or to NaN.
C5_EveryTickerPriceOrNaN ==
    f_pc = "returned" =>
        \A t \in Range(TickersList(f_req)) :
            /\ t \in DOMAIN f_ret
            /\ \/ IsNaN(f_ret[t])
               \/ ValidPrice(f_ret[t]) /\ t \in DOMAIN f_produced
                                       /\ f_ret[t] \in f_produced[t]

-----------------------------------------------------------------------------
(* Claims about the metrics table *)

\* C6: compute_metrics and compute_enhanced_metrics are total: for every
\* holdings table, also one that lacks a required column, they return a
\* table and no exception reaches the caller.
C6_MetricsTotal ==
    /\ m_pc = "metrics" => m_out.kind = "table"
    /\ m_pc = "enhanced" => m_enh.kind = "table"

\* compute_metrics has run on a table that has the three required columns
MetricsDone == m_pc = "metrics" /\ required_cols \subseteq m_df.columns

\* A cell that holds a number greater than 0
Positive(c) == c.k \in {"num", "str"} /\ c.v > 0

\* The rows of the output that come from input row h
RowsOf(h) ==
    {j \in 1..Len(m_out.table.rows) : m_out.table.rows[j]["index"] = h["index"]}

IsQuotient(x, n, d) == x.k = "rat" /\ x.d > 0 /\ x.n * d = x.d * n

TotalOfOutput ==
    SumSkipNa([j \in 1..Len(m_out.table.rows) |-> m_out.table.rows[j]["Total Value"]])

\* The sum over the rows from j on of Weight % x total, for the non-NaN weights
RECURSIVE WeightTimesTotalFrom(_, _)
WeightTimesTotalFrom(j, total) ==
    IF j > Len(m_out.table.rows) THEN 0
    ELSE LET w == m_out.table.rows[j]["Weight %"]
         IN  (IF IsNaN(w) THEN 0 ELSE w.n * (total \div w.d))
                + WeightTimesTotalFrom(j + 1, total)

-----------------------------------------------------------------------------
(* Claims about Beta and Alpha *)

\* The days on which the series has a finite return: a row that is not the
\* first and follows a row with a non-zero price
ReturnDays(series) ==
    {series[i].date : i \in {j \in 2..Len(series) : series[j - 1].price # 0}}

\* The return observations that remain after joining on the days in both
AlignedObservations == Cardinality(ReturnDays(b_asset) \cap ReturnDays(b_bench))

\* C10: compute_beta_alpha returns NaN for both Beta and Alpha whenever fewer
\* than 10 return observations remain after joining the two return series on
\* the dates present in both.
C10_NaNBelowTenObservations ==
    (b_pc = "returned" /\ AlignedObservations < 10) =>
        (IsNaN(b_out[1]) /\ IsNaN(b_out[2]))

\* Nine observations of two moving series gave NaN for both
C10_Witness ==
    /\ b_pc = "returned" /\ AlignedObservations = 9
    /\ \E i, j \in 1..Len(b_asset) : b_asset[i].price # b_asset[j].price
    /\ \E i, j \in 1..Len(b_bench) : b_bench[i].price # b_bench[j].price
    /\ IsNaN(b_out[1]) /\ IsNaN(b_out[2])

-----------------------------------------------------------------------------
(* Claims about ticker validation *)

\* C11: when yfinance is unavailable, validate_tickers_enhanced returns (it
\* never raises), reports every requested ticker, tickers of the static
\* table of known assets included, as invalid with the reason that the data
\* source is unavailable, reports nothing else, and makes no yfinance call.
C11_UnavailableAllInvalid ==
    (~YF_AVAILABLE /\ v_pc # "idle") =>
        /\ v_pc = "done"
        /\ v_net = <<>>
        /\ \A i \in 1..Len(v_req) :
              /\ Upper(v_req[i]) \in DOMAIN v_out
              /\ v_out[Upper(v_req[i])].valid = FALSE
              /\ v_out[Upper(v_req[i])].reason = "yfinance unavailable"
        /\ \A k \in DOMAIN v_out : \E i \in 1..Len(v_req) : k = Upper(v_req[i])

\* An unavailable validation of a known asset next to an unknown ticker
C11_Witness ==
    /\ ~YF_AVAILABLE /\ v_pc = "done"
    /\ \E i \in 1..Len(v_req) : Strip(Upper(v_req[i])) \in DOMAIN PopularAssets
    /\ \E i \in 1..Len(v_req) : Strip(Upper(v_req[i])) = <<"B">>
    /\ \A k \in DOMAIN v_out : ~v_out[k].valid

-----------------------------------------------------------------------------
(* Claims about the advisory notes *)

\* A metrics table: the empty table, or one with the columns compute_metrics
\* writes
IsMetricsTable(df) == df = NoTable \/ MetricsColumns \subseteq df.cols

HealthTitle == "Portfolio Health Check"

\* The entries of the result that rules produced
RuleEntries == SelectSeq(r_out, LAMBDA n : n.title # HealthTitle)

HealthEntries == SelectSeq(r_out, LAMBDA n : n.title = HealthTitle)

\* C12: for every metrics table on which no rule fires the result is exactly
\* one 'portfolio healthy' entry; when the rules produced only success and
\* info notes one healthy entry is appended; no result has more than one
\* healthy entry.
C12_HealthyUnlessWarned ==
    (r_pc = "done" /\ IsMetricsTable(r_df)) =>
        /\ RuleEntries = <<>> => Len(r_out) = 1 /\ Len(HealthEntries) = 1
        /\ (\A i \in 1..Len(RuleEntries) : RuleEntries[i].type \in {"success", "info"})
              => (Len(HealthEntries) = 1 /\ r_out[Len(r_out)].title = HealthTitle)
        /\ Len(HealthEntries) <= 1

\* The Weight % of one asset type, added up row by row from the input
RECURSIVE ShareOfType(_, _)
ShareOfType(ty, rows) ==
    IF rows = <<>> THEN 0
    ELSE ShareOfType(ty, Tail(rows))
         + (IF Head(rows)["Asset Type"] = ty /\ Head(rows)["Weight %"].k = "num"
            THEN Head(rows)["Weight %"].v ELSE 0)

AssetTypes == {"Stock", "ETF"}

Titled(type, title) == \E i \in 1..Len(r_out) : r_out[i] = [type |-> type, title |-> title]

HasTitle(title) == \E i \in 1..Len(r_out) : r_out[i].title = title

\* C13: for every metrics table in which the Weight % of one asset type sums
\* to more than 70 the result has the warning 'High Concentration Risk';
\* when the largest share of an asset type is above 50 and at most 70 it has
\* the info 'Monitor Concentration' instead; it never has both.
C13_ConcentrationNotes ==
    (r_pc = "done" /\ IsMetricsTable(r_df) /\ "Asset Type" \in r_df.cols) =>
        LET share == [ty \in AssetTypes |-> ShareOfType(ty, r_df.rows)]
        IN  /\ (\E ty \in AssetTypes : share[ty] > 70)
                  => (Titled("warning", "High Concentration Risk")
                      /\ ~HasTitle("Monitor Concentration"))
            /\ ((\E ty \in AssetTypes : share[ty] > 50)
                /\ (\A ty \in AssetTypes : share[ty] <= 70))
                  => (Titled("info", "Monitor Concentration")
                      /\ ~HasTitle("High Concentration Risk"))
            /\ ~(HasTitle("High Concentration Risk") /\ HasTitle("Monitor Concentration"))

\* A table whose largest asset type holds exactly 70: the info note, next to
\* other notes
C13_Witness ==
    /\ r_pc = "done" /\ IsMetricsTable(r_df) /\ "Asset Type" \in r_df.cols
    /\ ShareOfType("Stock", r_df.rows) = 70
    /\ Titled("info", "Monitor Concentration")
    /\ Len(r_out) > 2

-----------------------------------------------------------------------------
(* Claims about registration and login *)

\* The record of a user as the users file holds it, in either file format
StoredRecord(u) ==
    IF "users" \in DOMAIN USERS_FILE.data /\ u \in DOMAIN USERS_FILE.data["users"]
    THEN USERS_FILE.data["users"][u]
    ELSE IF u \in DOMAIN USERS_FILE.data THEN USERS_FILE.data[u]
    ELSE <<>>

IsDisabled(u) ==
    "account_status" \in DOMAIN StoredRecord(u)
        /\ StoredRecord(u)["account_status"] = "disabled"

\* C14: after register_user(u, p) has returned True, authenticate_user(u, p)
\* returns True as long as the account is neither locked nor disabled.
C14_LoginAfterRegistration ==
    (/\ a_last.op = "login"
     /\ a_last.user \in DOMAIN registered
     /\ registered[a_last.user] = a_last.password
     /\ ~a_last.locked
     /\ ~IsDisabled(a_last.user))
        => a_last.result

\* C15: register_user with a username that is already registered returns
\* False and leaves the stored user database unchanged.
C15_DuplicateRegistrationRejected ==
    (a_last.op = "register" /\ a_last.wasRegistered)
        => (~a_last.result /\ ~a_last.usersChanged)

-----------------------------------------------------------------------------
(* Claims about the fallback chain and the batch top-up *)

\* The order of the strategies: fast quote, recent-history close,
\* info lookup, generic download
StrategyOrder == <<"fast_info", "history_1d", "info", "download_1d">>

Yields(out) == out.k = "num" /\ out.v > 0

\* C17: for one ticker the strategies are tried strictly in the order fast
\* quote, recent-history close, info lookup, generic download; the first one
\* that yields a price greater than 0 determines the result and no later one
\* is invoked; one that raises or yields NaN or a value that is not positive
\* is skipped and the next is tried.
C17_FirstValidStrategyWins ==
    c_pc = "returned" =>
        /\ Len(c_calls) \in 1..4
        /\ \A i \in 1..Len(c_calls) :
              /\ c_calls[i].method = StrategyOrder[i]
              /\ c_calls[i].out = c_outs[i]
              /\ i < Len(c_calls) => ~Yields(c_calls[i].out)
        /\ IF \E i \in 1..4 : Yields(c_outs[i])
           THEN LET first == CHOOSE i \in 1..4 :
                                Yields(c_outs[i]) /\ \A j \in 1..(i - 1) : ~Yields(c_outs[j])
                IN  Len(c_calls) = first /\ c_price = c_outs[first]
           ELSE Len(c_calls) = 4 /\ c_price.k = "nan"

\* The quote raises, the history gives 0, the info lookup gives a price and
\* the download, which would give another price, is not asked
C17_Witness ==
    /\ c_pc = "returned"
    /\ c_outs[1].k = "exc" /\ c_outs[2] = [k |-> "num", v |-> 0]
    /\ Yields(c_outs[3]) /\ Yields(c_outs[4]) /\ c_outs[4] # c_outs[3]
    /\ Len(c_calls) = 3 /\ c_price = c_outs[3]

\* The tickers the per-ticker chain left without a price
Unresolved == {t \in DOMAIN f_batch.before : IsNaN(f_batch.before[t])}

\* C18: in fetch_current_prices_robust the batched request is issued only
\* after the per-ticker chain has run for all tickers, at most once per
\* fetch, if and only if between 1 and 10 tickers are still unresolved; it is
\* given only the unresolved tickers and never changes the price of a ticker
\* that the per-ticker chain already resolved.
C18_BatchOnlyForUnresolved ==
    /\ Len(f_batch.requests) <= 1
    /\ f_pc \in {"idle", "single", "batch"} => f_batch.requests = <<>>
    /\ (f_pc = "returned" /\ YF_AVAILABLE) =>
          /\ f_idx = Len(f_tickers) + 1
          /\ f_tickers # <<>> => DOMAIN f_batch.before = Range(f_tickers)
          /\ f_batch.requests # <<>> <=> Cardinality(Unresolved) \in 1..10
          /\ f_batch.requests # <<>> => f_batch.requests[1] = Unresolved
          /\ \A t \in DOMAIN f_batch.before \ Unresolved : f_ret[t] = f_batch.before[t]

\* Eleven tickers, one resolved by the chain and ten not: the batched
\* request is made for the ten, gives a price to some of them, and the
\* resolved one keeps its price
C18_Witness ==
    /\ f_pc = "returned" /\ YF_AVAILABLE
    /\ Len(f_tickers) = 11
    /\ Cardinality(Unresolved) = 10
    /\ f_batch.requests = <<Unresolved>>
    /\ \E t \in Unresolved : ValidPrice(f_ret[t])
    /\ \E t \in DOMAIN f_batch.before \ Unresolved :
          ValidPrice(f_batch.before[t]) /\ f_ret[t] = f_batch.before[t]

\* Eleven tickers, none resolved by the chain: no batched request
C18_WitnessEleven ==
    /\ f_pc = "returned" /\ YF_AVAILABLE
    /\ Cardinality(Unresolved) = 11
    /\ f_batch.requests = <<>>

-----------------------------------------------------------------------------
(* Claims about the historical series *)

\* The last call returned what the call before it for the same key returned,
\* without a network query
ServedFromCache == h_last.queries = <<>> /\ h_last.ret = h_last.knownRet

\* C19 as stated: once fetch_historical_series has been called for a
\* (ticker, period) key, every later call for that key, with any interval,
\* returns the cached value and performs no network query.
C19_AsStated ==
    (h_last.op = "hist" /\ h_last.known) => ServedFromCache

\* C19: once fetch_historical_series has been called for a (ticker, period)
\* key, whether it obtained a series or an empty one, every later call for
\* that key with any interval and with no clear_all_caches in between, however
\* much later, returns the cached value and performs no network query.
C19_CachedUntilCleared ==
    (h_last.op = "hist" /\ h_last.known /\ ~h_last.clearedSince) => ServedFromCache

\* A later call, after time has passed, with another interval and another
\* spelling than the series in the cache was fetched with, at a moment the
\* history query would give data: it returns the series of the cache
C19_Witness ==
    /\ h_last.op = "hist" /\ h_last.known /\ ~h_last.clearedSince
    /\ YF_AVAILABLE /\ now > 0
    /\ h_last.knownRet # EmptySeries
    /\ h_last.ret = h_last.knownRet /\ h_last.ret.interval # h_last.interval
    /\ h_last.h1 = GoodFrame /\ ~h_last.raises
    /\ h_last.queries = <<>>

\* The same for a key whose first call found nothing: the empty series is
\* returned again although the history query would now give data
C19_WitnessEmpty ==
    /\ h_last.op = "hist" /\ h_last.known /\ ~h_last.clearedSince
    /\ YF_AVAILABLE
    /\ h_last.knownRet = EmptySeries /\ h_last.ret = EmptySeries
    /\ h_last.h1 = GoodFrame /\ ~h_last.raises
    /\ h_last.queries = <<>>

\* The series of one query result by the stated preference: adjusted close
\* when present and not all missing, otherwise close
PreferredSeries(frame, src, interval) ==
    IF frame.kind # "frame" THEN EmptySeries
    ELSE IF frame.adj = "data" THEN [src |-> src, col |-> "Adj Close", interval |-> interval]
    ELSE IF frame.close = "data" THEN [src |-> src, col |-> "Close", interval |-> interval]
    ELSE EmptySeries

\* C20: from the result of either history query (primary or fallback
\* download) fetch_historical_series takes the adjusted-close column when it
\* is present and not all missing, and otherwise the close column; a result
\* whose adjusted-close column has no data but whose close column has data
\* yields the close series from that same result.
C20_AdjustedCloseElseClose ==
    (h_last.op = "hist" /\ h_last.queries # <<>>) =>
        LET p1 == PreferredSeries(h_last.h1, "history", h_last.interval)
            p2 == PreferredSeries(h_last.h2, "download", h_last.interval)
        IN  h_last.ret = IF p1 # EmptySeries THEN p1 ELSE p2

\* The part of C20 that holds: a result whose adjusted-close column has data
\* gives that column, and one without an adjusted-close column gives its
\* close column
C20_WhenAdjustedCloseHasDataOrIsAbsent ==
    (h_last.op = "hist" /\ h_last.queries # <<>>
     /\ h_last.h1.adj # "nan" /\ h_last.h2.adj # "nan") =>
        LET p1 == PreferredSeries(h_last.h1, "history", h_last.interval)
            p2 == PreferredSeries(h_last.h2, "download", h_last.interval)
        IN  h_last.ret = IF p1 # EmptySeries THEN p1 ELSE p2

-----------------------------------------------------------------------------
(* Claims about the portfolio risk figures *)

\* The returns at which a figure gives up for want of data
DataReturns == {"tickers", "rows", "returns"}

\* Both figures were asked for a table they accept
BothJudged ==
    /\ k_sharpe # <<>> /\ k_var # <<>>
    /\ k_sharpe.at \notin {"table", "assets"}
    /\ k_var.at \notin {"table", "assets", "value"}

\* C21: calculate_value_at_risk and calculate_portfolio_sharpe apply the same
\* data-insufficiency conditions: for the same metrics table with positive
\* total value and the same histories, the data is judged sufficient by one
\* exactly when it is judged sufficient by the other.
C21_SameInsufficiency ==
    BothJudged => (k_sharpe.at \in DataReturns <=> k_var.at \in DataReturns)

\* The part of C21 that holds: both ask for two tickers with a usable
\* history, and what suffices for the value at risk suffices for the Sharpe
\* ratio
C21_SameTickersAndVarStricter ==
    BothJudged =>
        /\ k_sharpe.at = "tickers" <=> k_var.at = "tickers"
        /\ k_var.at \notin DataReturns => k_sharpe.at \notin DataReturns

\* The ratio the figures were computed from
SharpeInput == k_in.sharpe
Magnitude(x) == IF x.v < 0 THEN -x.v ELSE x.v

\* C22: the portfolio Sharpe ratio uses the same plausibility clamp as the
\* per-asset Sharpe ratio: in both, a value whose magnitude is 10 or more is
\* reported as NaN and a value whose magnitude is below 10 is kept.
C22_SameClamp ==
    (/\ k_sharpe # <<>> /\ k_asset # <<>>
     /\ k_sharpe.at \in {"clamp", "result"}) =>
        /\ Magnitude(SharpeInput) >= 100 => IsNaN(k_sharpe.ret) /\ IsNaN(k_asset[1])
        /\ Magnitude(SharpeInput) < 100 =>
              k_sharpe.ret = SharpeInput /\ k_asset[1] = SharpeInput

\* The part of C22 that holds: the two agree on every value whose magnitude
\* is not exactly 10
C22_SameClampButAtTen ==
    (/\ k_sharpe # <<>> /\ k_asset # <<>>
     /\ k_sharpe.at \in {"clamp", "result"}
     /\ Magnitude(SharpeInput) # 100) =>
        /\ k_sharpe.ret = k_asset[1]
        /\ IsNaN(k_sharpe.ret) <=> Magnitude(SharpeInput) > 100

-----------------------------------------------------------------------------
(* Claims about the threshold rules of the advisory notes *)

\* The Beta values of the table, in tenths
Betas == {r_df.rows[i]["Beta"].v : i \in {j \in 1..Len(r_df.rows) : r_df.rows[j]["Beta"].k = "num"}}

BetaTableDone ==
    r_pc = "done" /\ r_df # NoTable /\ IsMetricsTable(r_df) /\ "Beta" \in r_df.cols

\* C23: each threshold rule fires whenever its own condition holds on the
\* table, independently of the other rules and of the number of holdings:
\* any table with a position whose Beta is above 1.5 yields the high-beta
\* note and any table with a position whose Beta is below 0.5 yields the
\* low-beta note.
C23_BetaRulesFire ==
    BetaTableDone =>
        /\ (\E b \in Betas : b > 15) => HasTitle("High Beta Exposure")
        /\ (\E b \in Betas : b < 5) => HasTitle("Defensive Positions")

\* The part of C23 that holds: the high-beta note on every such table, the
\* low-beta note on the tables of more than five holdings, and neither note
\* without its condition
C23_LowBetaAboveFiveHoldings ==
    BetaTableDone =>
        /\ (\E b \in Betas : b > 15) <=> HasTitle("High Beta Exposure")
        /\ ((\E b \in Betas : b < 5) /\ Len(r_df.rows) > 5) <=> HasTitle("Defensive Positions")

\* A table of more than five holdings with a low Beta has the low-beta note
C23_LowBetaNoteReached ==
    BetaTableDone /\ HasTitle("Defensive Positions") /\ Len(r_df.rows) = 10

-----------------------------------------------------------------------------
(* Claims about what a login requires *)

\* The lock of the last call's user was in force when the call was made:
\* five failures in a row, the last attempt 15 minutes ago or less
LockInForce ==
    /\ a_last.streakBefore >= 5
    /\ a_last.lastAttemptBefore # <<>>
    /\ a_last.at - a_last.lastAttemptBefore[1] <= 15

C24_Refusals ==
    /\ a_last.op = "login" /\ ~a_last.result
    /\ \/ LockInForce /\ a_last.password = GoodPassword
             /\ a_last.user \in DOMAIN load_users_from_file(USERS_FILE)
       \/ IsDisabled(a_last.user) /\ a_last.password = GoodPassword

-----------------------------------------------------------------------------
(* Claims about what releases a lockout *)

\* A login of "ali" made while the lockout that began at minute 0 is running
LoginDuringLockout ==
    /\ a_last.op = "login" /\ a_last.user = "ali"
    /\ a_last.streakBefore >= MAX_LOGIN_ATTEMPTS
    /\ a_last.at <= LOCKOUT_DURATION_MINUTES

\* C25: while a username is locked out, every authenticate_user call for it
\* is turned down by the lock and returns False until the lockout duration
\* has passed, whatever register_user, change_password, delete_user,
\* cleanup_old_login_attempts or perform_maintenance calls come in between
C25_OnlyTimeReleasesLock ==
    LoginDuringLockout => (~a_last.result /\ a_last.locked)

\* C25: the lock holds as long as the attempts file still records the five
\* failures when the login is made
C25_LockHeldWhileCountStands ==
    (LoginDuringLockout /\ a_last.countBefore >= MAX_LOGIN_ATTEMPTS)
        => (~a_last.result /\ a_last.locked)

\* C25: a login let through, and accepted, during the lockout
C25_AcceptedDuringLockout ==
    LoginDuringLockout /\ a_last.result

-----------------------------------------------------------------------------
(* Claims about failed logins made at the same time *)

StoredFailedCount ==
    Get(Get(AttemptsOf(LOGIN_ATTEMPTS_FILE), "ali", EmptyMap), "failed_count", 0)
AllReturned == \A s \in Sessions : s_pc[s] = "idle"

\* C26: when several authenticate_user calls with wrong passwords for one
\* username run at the same time, every failure is counted: once they have
\* returned, the stored failed_count has grown by the number of failures,
\* and no more than five wrong passwords were tried
C26_EveryFailureCounted ==
    /\ AllReturned => StoredFailedCount = s_tried
    /\ s_tried <= MAX_LOGIN_ATTEMPTS

\* C26: calls that never ran at the same time are all counted, and the
\* sixth is turned down
C26_CountedOneAfterAnother ==
    ~s_overlap =>
        /\ AllReturned => StoredFailedCount = s_tried
        /\ s_tried <= MAX_LOGIN_ATTEMPTS

\* C26: a sixth wrong password was verified
C26_SixthPasswordTried == s_tried > MAX_LOGIN_ATTEMPTS

-----------------------------------------------------------------------------
(* Claims about whose counters a login changes *)

\* The step is an authenticate_user call
LoginStep == a_calls' = a_calls + 1 /\ a_last'.op = "login"

\* The entries of the attempts file under the names in B are what they were
EntriesKept(B) ==
    \A b \in B :
        /\ b \in DOMAIN AttemptsOf(LOGIN_ATTEMPTS_FILE)
              <=> b \in DOMAIN AttemptsOf(LOGIN_ATTEMPTS_FILE')
        /\ Get(AttemptsOf(LOGIN_ATTEMPTS_FILE'), b, EmptyMap)
              = Get(AttemptsOf(LOGIN_ATTEMPTS_FILE), b, EmptyMap)

RecordedNames ==
    DOMAIN AttemptsOf(LOGIN_ATTEMPTS_FILE) \cup DOMAIN AttemptsOf(LOGIN_ATTEMPTS_FILE')

\* C27: an authenticate_user call for a username, also one that is empty or
\* sanitizes to the empty string, never changes the failed count, the
\* last-attempt time or the lock state recorded for any other username
C27_OtherNamesUntouched ==
    [][LoginStep => EntriesKept(RecordedNames \ {a_last'.user})]_vars

\* C27: a call changes at most the entry of its own sanitized username, or
\* the entry "unknown" when that username or the password is empty
C27_OwnEntryOrUnknown ==
    [][LoginStep => EntriesKept(RecordedNames \ {a_last'.user, "unknown"})]_vars

\* C27: a login without a username was counted against the account "unknown"
C27_CountedAgainstUnknown ==
    /\ a_last.op = "login" /\ a_last.user = ""
    /\ "unknown" \in DOMAIN registered
    /\ Get(Get(AttemptsOf(LOGIN_ATTEMPTS_FILE), "unknown", EmptyMap), "failed_count", 0) > 0

-----------------------------------------------------------------------------
(* Claims about whose portfolios a user sees *)

\* The writers of what the last list or load returned
WritersReturned ==
    {p_dir[f].by : f \in Range(p_last.files)} \cup {r.by : r \in Range(p_last.loaded)}

\* C28: for valid usernames u and v with u different from v, which may
\* contain underscores, list_portfolios(u) and load_portfolio(u) never
\* return a portfolio that save_portfolio wrote for v
C28_OnlyOwnPortfolios ==
    p_last.op \in {"list", "load"} => WritersReturned \subseteq {p_last.user}

\* C28: what is returned for u was written for u or for a user whose name
\* begins with u and an underscore
C28_OwnOrPrefixedPortfolios ==
    p_last.op \in {"list", "load"} =>
        \A v \in WritersReturned : v = p_last.user \/ StartsWith(v, p_last.user \o <<"_">>)

\* C28: load_portfolio(u) without a filename gave the portfolio of another user
C28_LoadedAnothersPortfolio ==
    /\ p_last.op = "load" /\ p_last.loaded # <<>>
    /\ p_last.loaded[1].by # p_last.user

-----------------------------------------------------------------------------
(* Claims about the price cache under sessions that run at the same time *)

\* C29: with sessions running at the same time on the caches of the
\* process, get_cached_prices never raises and returns the map cached for
\* its own key or a freshly fetched one, also when another session runs
\* clear_all_caches between its membership check and its read of the entry
C29_NeverRaises ==
    \A s \in Sessions :
        g_out[s] # <<>> =>
            /\ ~g_out[s].raised
            /\ DOMAIN g_out[s].ret = Range(g_loc[s].tickers_list)

\* C29: a call raises only when the price cache was cleared between its
\* membership check and its read; otherwise it returns a map of its tickers
C29_RaisesOnlyWhenClearedBetween ==
    \A s \in Sessions :
        g_out[s] # <<>> =>
            IF g_out[s].raised THEN g_loc[s].clearedSince
            ELSE DOMAIN g_out[s].ret = Range(g_loc[s].tickers_list)

\* C29: a call that found its key in the cache ended in KeyError
C29_KeyErrorReached ==
    \E s \in Sessions : g_out[s] # <<>> /\ g_out[s].raised

-----------------------------------------------------------------------------
(* Claims about the session being authenticated *)

\* C30: in every reachable session state, session_state.authenticated is
\* True only if authenticate_user returned True in the session since the
\* last logout; no other action, the recovery buttons of the error page
\* included, sets it to True
C30_AuthenticatedOnlyAfterLogin ==
    session_state["authenticated"] => u_verified

\* C30: authenticated is True only after a login that authenticate_user
\* accepted or after "Reset Session" was pressed on the error page
C30_AuthenticatedAfterLoginOrReset ==
    session_state["authenticated"] => (u_verified \/ u_reset)

\* C30: a session is authenticated under no username, without any login
C30_AuthenticatedWithoutLogin ==
    /\ session_state["authenticated"] /\ session_state["username"] = <<>>
    /\ ~u_verified /\ u_reset

====
